---------------------------- MODULE Spec2Model ----------------------------
(***************************************************************************)
(* The Weighted Scoring Model engine of backend/app/services/wsm_service.py *)
(* as a state machine: the store of raw observations (financial_data), the  *)
(* operations Score, ScorePreview, Scorecard and Simulate applied to it,    *)
(* and the weight resolver.                                                 *)
(*                                                                         *)
(* Numbers.  Raw values are integers (the store's Numeric column); every    *)
(* float of the code is an exact rational <<n, d>> with d > 0 in lowest     *)
(* terms, and round(x, 6) yields an integer count of millionths.  Float     *)
(* rounding error is therefore outside the model.                           *)
(*                                                                         *)
(* Optional values.  Python's None is the empty tuple, a present value v    *)
(* is <<v>>.  An observation that is None stands for both "no row" and "a   *)
(* row whose value is NULL": every operation skips NULL rows before it      *)
(* does anything else, and both cases raise the same HTTP status.           *)
(***************************************************************************)
EXTENDS Integers, Sequences, FiniteSets, TLC

VARIABLES financial_data, call, redis_store

vars == <<financial_data, call, redis_store>>

(***************************************************************************)
(* Bounds of the model.                                                     *)
(***************************************************************************)
\* raw observations range over -1 .. MaxVal
MaxVal == 2
\* raw weights supplied by a caller range over 0 .. MaxWeight
MaxWeight == 2
\* the largest catalog the coverage labels are computed for
MaxMetrics == 20

None == <<>>
Some(v) == <<v>>
Get(o) == o[1]

(***************************************************************************)
(* Exact rational arithmetic standing for the code's float arithmetic.      *)
(* A number is <<n, d>> in lowest terms, d > 0.                             *)
(***************************************************************************)
\* the element of a one-element set: Only({e : x \in {v}}) is e with x
\* standing for the value of v
Only(S) == CHOOSE x \in S : TRUE

Abs(x) == IF x < 0 THEN -x ELSE x

GCD[a \in Nat, b \in Nat] == IF b = 0 THEN a ELSE GCD[b, a % b]

\* n/d in lowest terms, for d > 0
Lowest[n \in Int, d \in Nat] ==
  IF n = 0 THEN <<0, 1>>
  ELSE LET g == GCD[Abs(n), d] IN <<n \div g, d \div g>>
Rat(n, d) == Lowest[n, d]

ToFloat(i) == <<i, 1>>
Zero == <<0, 1>>
One == <<1, 1>>

RAdd(a, b) ==
  Only({Rat(x[1] * y[2] + y[1] * x[2], x[2] * y[2]) : x \in {a}, y \in {b}})
RMul(a, b) ==
  Only({Rat(x[1] * y[1], x[2] * y[2]) : x \in {a}, y \in {b}})
\* a / b for b # 0
RDiv(a, b) ==
  Only({IF y[1] > 0 THEN Rat(x[1] * y[2], x[2] * y[1])
        ELSE Rat(-(x[1] * y[2]), x[2] * (-y[1])) : x \in {a}, y \in {b}})
RLt(a, b) == \E x \in {a}, y \in {b} : x[1] * y[2] < y[1] * x[2]
RLe(a, b) == \E x \in {a}, y \in {b} : x[1] * y[2] <= y[1] * x[2]
RAbs(a) == Only({<<Abs(x[1]), x[2]>> : x \in {a}})
RNeg(a) == Only({<<-x[1], x[2]>> : x \in {a}})

RECURSIVE RSum(_, _)
\* sum of f[x] over the finite set S
RSum(f, S) ==
  Only({IF T = {} THEN Zero
        ELSE LET x == CHOOSE y \in T : TRUE
             IN  RAdd(g[x], RSum(g, T \ {x})) : g \in {f}, T \in {S}})

RECURSIVE RSumSeq(_)
RSumSeq(s) ==
  Only({IF t = <<>> THEN Zero ELSE RAdd(Head(t), RSumSeq(Tail(t))) : t \in {s}})

RMaxOf(S) == Only({(CHOOSE x \in T : \A y \in T : RLe(y, x)) : T \in {S}})
RMinOf(S) == Only({(CHOOSE x \in T : \A y \in T : RLe(x, y)) : T \in {S}})

\* round(x, 6), as a count of millionths (ties to even, as Python rounds)
Round6(r) ==
  Only({LET scaled == x[1] * 1000000
            q == scaled \div x[2]
            rem == scaled - q * x[2]
        IN  IF 2 * rem > x[2] THEN q + 1
            ELSE IF 2 * rem = x[2] THEN (IF q % 2 = 0 THEN q ELSE q + 1)
            ELSE q : x \in {r}})

\* a clamp that lets every value through
_clamp01_Unclamped(value) == value

\* _clamp01, and the inline max(0.0, min(1.0, raw))
_clamp01(value) ==
  Only({IF RLt(x, Zero) THEN Zero ELSE IF RLt(One, x) THEN One ELSE x :
          x \in {value}})

Range(s) == Only({{t[i] : i \in DOMAIN t} : t \in {s}})

\* dict.get(key, 0)
GetOr0(d, k) == IF k \in DOMAIN d THEN d[k] ELSE Zero

(***************************************************************************)
(* Reference data: the issuers, the year, the metric catalog.               *)
(***************************************************************************)
\* Emiten.ticker_code, in ascending (lexicographic) order
TickerOrder == <<"OTHER", "TEST">>
Tickers == Range(TickerOrder)
TickerPos(t) == CHOOSE i \in DOMAIN TickerOrder : TickerOrder[i] = t
Years == {2024}

DISABLED_METRICS == {"Operating Cash Flow"}

\* the rows of the metric mapping file, before the loader filters them
mapping_rows ==
  << [metric_name |-> "Metric A", section |-> "balance", type |-> "benefit",
      default_weight |-> 1],
     [metric_name |-> "Operating Cash Flow", section |-> "cashflow",
      type |-> "benefit", default_weight |-> 1],
     [metric_name |-> "", section |-> "income", type |-> "benefit",
      default_weight |-> 1],
     [metric_name |-> "Metric B", section |-> "income", type |-> "cost",
      default_weight |-> 1] >>

load_metric_mapping_list ==
  SelectSeq(mapping_rows,
            LAMBDA row : row.metric_name # ""
                         /\ row.metric_name \notin DISABLED_METRICS)

\* the metric_definitions table: one definition per mapped name, plus the
\* disabled metric, which the table still holds
MetricNames == {mapping_rows[i].metric_name : i \in DOMAIN mapping_rows} \ {""}
CatalogNames ==
  {load_metric_mapping_list[i].metric_name : i \in DOMAIN load_metric_mapping_list}

Entry(name) ==
  LET i == CHOOSE j \in DOMAIN load_metric_mapping_list :
             load_metric_mapping_list[j].metric_name = name
  IN  load_metric_mapping_list[i]

_normalize_section_key(section) ==
  IF section \in {"cashflow", "cash_flow", "cash flow"} THEN "cash_flow"
  ELSE IF section \in {"balance", "balance sheet"} THEN "balance"
  ELSE IF section \in {"income", "income statement"} THEN "income"
  ELSE IF section = "" THEN "unknown" ELSE section

Sections == <<"balance", "income", "cash_flow">>


(***************************************************************************)
(* Results of an operation: a value, or the HTTPException it raises.        *)
(*   400 InvalidInput, 401 Unauthorized, 404 NotFound, 422 Unprocessable    *)
(***************************************************************************)
Ok(v) == [err |-> "", val |-> v]
Err(e) == [err |-> e]
IsOk(r) == r.err = ""

(***************************************************************************)
(* Weight helpers                                                           *)
(***************************************************************************)
\* the weight_templates table: id -> template
TemplateIds == {1, 2}
UserIds == {1, 2}
weight_templates ==
  [id \in TemplateIds |->
     IF id = 1
     THEN [owner_user_id |-> 1, scope |-> "section",
           weights_json |-> ("balance" :> ToFloat(2) @@ "income" :> ToFloat(1))]
     ELSE [owner_user_id |-> 2, scope |-> "metric",
           weights_json |-> ("Metric A" :> ToFloat(1) @@ "Metric B" :> ToFloat(2))]]

\* the order in which a weights_json object lists its keys
KeyOrder ==
  <<"Metric A", "Metric B", "Metric X", "balance", "income", "cashflow", "foo">>

_clean_weight_numbers(weights) ==
  Only({IF \E k \in DOMAIN w : RLt(w[k], Zero) \/ RLt(ToFloat(100), w[k])
        THEN Err("InvalidInput")
        ELSE Ok(w) : w \in {weights}})

_normalize_weight_map(weights) ==
  Only({IF ~IsOk(cleaned) THEN cleaned
        ELSE Only({IF RLe(total, Zero) THEN Err("InvalidInput")
                   ELSE Ok([k \in DOMAIN cleaned.val |->
                              RDiv(cleaned.val[k], total)]) :
                     total \in {RSum(cleaned.val, DOMAIN cleaned.val)}}) :
          cleaned \in {_clean_weight_numbers(weights)}})

\* a template lookup that does not look at the owner
_load_weight_template_AnyOwner(template_id, user_id) ==
  IF user_id = None THEN Err("Unauthorized")
  ELSE IF template_id \in DOMAIN weight_templates
       THEN Ok(weight_templates[template_id])
       ELSE Err("NotFound")

_load_weight_template_owned(template_id, user_id) ==
  IF user_id = None THEN Err("Unauthorized")
  ELSE IF template_id \in DOMAIN weight_templates
          /\ weight_templates[template_id].owner_user_id = Get(user_id)
       THEN Ok(weight_templates[template_id])
       ELSE Err("NotFound")

\* the entry of a catalog (a list of mapping entries) for a metric name
EntryOf(mapping_entries, name) ==
  mapping_entries[CHOOSE i \in DOMAIN mapping_entries :
                    mapping_entries[i].metric_name = name]

\* {entry.metric_name: max(entry.default_weight, 0.0)}
DefaultWeightRaw(mapping_entries) ==
  [name \in {mapping_entries[i].metric_name : i \in DOMAIN mapping_entries} |->
     LET w == ToFloat(EntryOf(mapping_entries, name).default_weight)
     IN  IF RLt(w, Zero) THEN Zero ELSE w]

_prepare_mapping_defaults ==
  LET mapping_entries == load_metric_mapping_list
      names == {mapping_entries[i].metric_name : i \in DOMAIN mapping_entries}
      default_weight_raw == DefaultWeightRaw(mapping_entries)
      total_weight == RSum(default_weight_raw, names)
  IN  IF mapping_entries = <<>> THEN Err("InvalidInput")
      ELSE IF RLe(total_weight, Zero) THEN Err("InvalidInput")
      ELSE Ok([mapping_entries |-> mapping_entries,
               default_weight_raw |-> default_weight_raw,
               normalized_default_weights |->
                 [name \in names |-> RDiv(default_weight_raw[name], total_weight)]])

\* {_normalize_section_key(k): v for k, v in section_weights.items()}: of two
\* keys with one canonical form, the one listed last wins
CanonicalSections(section_weights) ==
  LET canon == {_normalize_section_key(k) : k \in DOMAIN section_weights}
      last(c) ==
        LET idx == {i \in DOMAIN KeyOrder :
                      KeyOrder[i] \in DOMAIN section_weights
                      /\ _normalize_section_key(KeyOrder[i]) = c}
        IN  KeyOrder[CHOOSE i \in idx : \A j \in idx : j <= i]
  IN  [c \in canon |-> section_weights[last(c)]]

\* section weights spread evenly over the metrics of each section
_metric_weights_EvenShares(section_weights, mapping_entries, default_weight_raw) ==
  LET names == {mapping_entries[i].metric_name : i \in DOMAIN mapping_entries}
      section_of == [m \in names |->
                       _normalize_section_key(EntryOf(mapping_entries, m).section)]
      normalized_section_weights ==
        _normalize_weight_map(CanonicalSections(section_weights))
  IN  IF ~IsOk(normalized_section_weights) THEN normalized_section_weights
      ELSE _normalize_weight_map(
             [m \in names |->
                IF section_of[m] \in Range(Sections)
                THEN RDiv(GetOr0(normalized_section_weights.val, section_of[m]),
                          ToFloat(Cardinality({n \in names :
                                                 section_of[n] = section_of[m]})))
                ELSE Zero])

_metric_weights_from_section(section_weights, mapping_entries, default_weight_raw) ==
  LET names == {mapping_entries[i].metric_name : i \in DOMAIN mapping_entries}
      section_of == [m \in names |->
                       _normalize_section_key(EntryOf(mapping_entries, m).section)]
      metrics_by_section ==
        [sec \in Range(Sections) |-> {m \in names : section_of[m] = sec}]
      sec_default_sum(sec) == RSum(default_weight_raw, metrics_by_section[sec])
  IN  Only({
        IF ~IsOk(normalized_section_weights) THEN normalized_section_weights
        ELSE IF \E sec \in Range(Sections) :
                  /\ metrics_by_section[sec] # {}
                  /\ RLe(sec_default_sum(sec), Zero)
             THEN Err("InvalidInput")
        ELSE _normalize_weight_map(
               [m \in names |->
                  IF section_of[m] \in Range(Sections)
                  THEN RMul(GetOr0(normalized_section_weights.val, section_of[m]),
                            RDiv(default_weight_raw[m],
                                 sec_default_sum(section_of[m])))
                  ELSE Zero]) :
          normalized_section_weights \in
            {_normalize_weight_map(CanonicalSections(section_weights))}})

_resolve_metric_weight_map(weight_scope, weights_json, defaults) ==
  LET mapping_entries == defaults.mapping_entries
      metric_names == {mapping_entries[i].metric_name : i \in DOMAIN mapping_entries}
  IN
  IF weights_json = None \/ weight_scope = None
  THEN Ok(defaults.normalized_default_weights)
  ELSE IF Get(weight_scope) \notin {"metric", "section"} THEN Err("InvalidInput")
  ELSE IF Get(weight_scope) = "metric"
  THEN Only({IF ~IsOk(cleaned) THEN cleaned
             ELSE IF \E k \in DOMAIN cleaned.val : k \notin metric_names
                  THEN Err("InvalidInput")
             ELSE _normalize_weight_map(
                    [name \in metric_names |-> GetOr0(cleaned.val, name)]) :
               cleaned \in {_clean_weight_numbers(Get(weights_json))}})
  ELSE _metric_weights_from_section(Get(weights_json), mapping_entries,
                                    defaults.default_weight_raw)

\* metric inputs that take every metric for a benefit metric
_metric_inputs_AllBenefit(mapping_entries, weight_map) ==
  [i \in DOMAIN mapping_entries |->
     [metric_name |-> mapping_entries[i].metric_name,
      type |-> "benefit",
      weight |-> GetOr0(weight_map, mapping_entries[i].metric_name)]]

_metric_inputs_from_weight_map(mapping_entries, weight_map) ==
  [i \in DOMAIN mapping_entries |->
     [metric_name |-> mapping_entries[i].metric_name,
      type |-> IF mapping_entries[i].type = "" THEN "benefit"
               ELSE mapping_entries[i].type,
      weight |-> GetOr0(weight_map, mapping_entries[i].metric_name)]]

\* a resolver that reads a non-empty explicit list before the template
_resolve_metrics_ListFirst(metrics, weight_template_id, weight_scope, weights_json, user_id) ==
  LET template ==
        IF weight_template_id # None
        THEN _load_weight_template_owned(Get(weight_template_id), user_id)
        ELSE Ok(None)
      defaults == _prepare_mapping_defaults
      weight_map ==
        IF weight_template_id # None
        THEN _resolve_metric_weight_map(Some(template.val.scope),
                                        Some(template.val.weights_json),
                                        defaults.val)
        ELSE _resolve_metric_weight_map(weight_scope, weights_json, defaults.val)
  IN  IF metrics # None /\ Get(metrics) # <<>> THEN Ok(Get(metrics))
      ELSE IF ~IsOk(template) THEN template
      ELSE IF ~IsOk(defaults) THEN defaults
      ELSE IF ~IsOk(weight_map) THEN weight_map
      ELSE Ok(_metric_inputs_from_weight_map(defaults.val.mapping_entries,
                                             weight_map.val))

_resolve_metrics_from_source(metrics, weight_template_id, weight_scope, weights_json, user_id) ==
  LET template ==
        IF weight_template_id # None
        THEN _load_weight_template_owned(Get(weight_template_id), user_id)
        ELSE Ok(None)
      scope == IF weight_template_id # None THEN Some(template.val.scope)
               ELSE weight_scope
      wjson == IF weight_template_id # None THEN Some(template.val.weights_json)
               ELSE weights_json
      mlist == IF weight_template_id # None THEN None ELSE metrics
      defaults == _prepare_mapping_defaults
  IN
  IF ~IsOk(template) THEN template
  ELSE IF mlist # None /\ Get(mlist) # <<>> THEN Ok(Get(mlist))
  ELSE IF ~IsOk(defaults) THEN defaults
  ELSE Only({IF ~IsOk(weight_map) THEN weight_map
             ELSE Ok(_metric_inputs_from_weight_map(
                       defaults.val.mapping_entries, weight_map.val)) :
               weight_map \in
                 {IF wjson # None
                  THEN _resolve_metric_weight_map(scope, wjson, defaults.val)
                  ELSE _resolve_metric_weight_map(
                         Some("metric"),
                         Some(defaults.val.normalized_default_weights),
                         defaults.val)}})

\* sum(metric.weight for metric in metrics), and the dict comprehension
\* {metric.metric_name: metric.weight / total_weight}: of two list items with
\* one metric_name, the later one sets the entry
LastOf(metrics, name) ==
  LET idx == {i \in DOMAIN metrics : metrics[i].metric_name = name}
  IN  metrics[CHOOSE i \in idx : \A j \in idx : j <= i]

_normalize_weights(metrics) ==
  Only({IF RLe(total_weight, Zero) THEN Err("InvalidInput")
        ELSE Ok([name \in {ms[i].metric_name : i \in DOMAIN ms} |->
                   RDiv(LastOf(ms, name).weight, total_weight)]) :
          ms \in {metrics},
          total_weight \in {RSumSeq([i \in DOMAIN metrics |-> metrics[i].weight])}})


(***************************************************************************)
(* Normalization and scoring                                                *)
(***************************************************************************)
\* list.sort(key=...): a stable sort; before[i, j] holds when the key of
\* s[i] is strictly smaller than the key of s[j]
StableSort(s, before) ==
  Only({[k \in 1..Len(t) |->
           t[CHOOSE i \in DOMAIN t :
               k = 1 + Cardinality({j \in DOMAIN t :
                                      lt[j, i] \/ (~lt[i, j] /\ j < i)})]] :
          t \in {s}, lt \in {before}})

Take(s, n) == Only({IF n >= Len(t) THEN t ELSE SubSeq(t, 1, n) : t \in {s}})

\* abs(x) if metric_type == "cost" and x < 0 else x
AdjustedValue(metric_type, x) ==
  IF metric_type = "cost" /\ RLt(x, Zero) THEN RAbs(x) ELSE x

\* the rows the store returns for (year, metric names, optional ticker
\* filter) whose value is not NULL, as ticker -> metric -> adjusted value
TickerMetricValues(data, year, names, type_of, tickers) ==
  LET fetched == IF tickers = None \/ Get(tickers) = {} THEN Tickers
                 ELSE Tickers \cap Get(tickers)
      present(t) == {m \in names : /\ <<t, m, year>> \in DOMAIN data
                                    /\ data[t, m, year] # None}
  IN  [t \in {u \in fetched : present(u) # {}} |->
         [m \in present(t) |->
            AdjustedValue(type_of[m], ToFloat(Get(data[t, m, year])))]]

\* values_by_metric: metric -> the adjusted values of the fetched rows
ValuesByMetric(ticker_metric_values, names) ==
  [m \in names |->
     {ticker_metric_values[t][m] :
        t \in {u \in DOMAIN ticker_metric_values :
                 m \in DOMAIN ticker_metric_values[u]}}]

\* max_by_metric / min_by_metric: only metrics with at least one value
MaxByMetric(values_by_metric) ==
  Only({[m \in {n \in DOMAIN v : v[n] # {}} |-> RMaxOf(v[m])] :
          v \in {values_by_metric}})
MinByMetric(values_by_metric) ==
  Only({[m \in {n \in DOMAIN v : v[n] # {}} |-> RMinOf(v[m])] :
          v \in {values_by_metric}})

\* a normalization that forgets the metric's orientation
NormalizedValue_AsBenefit(metric_type, value, max_by_metric, min_by_metric, m) ==
  LET denominator == GetOr0(max_by_metric, m) IN
  IF denominator = Zero THEN Zero ELSE _clamp01(RDiv(value, denominator))

\* the normalized value of one available metric of one ticker
NormalizedValue(metric_type, value, max_by_metric, min_by_metric, m) ==
  IF metric_type = "benefit"
  THEN LET denominator == GetOr0(max_by_metric, m) IN
       IF denominator = Zero THEN Zero
       ELSE _clamp01(RDiv(value, denominator))
  ELSE LET numerator == GetOr0(min_by_metric, m) IN
       IF value = Zero \/ numerator = Zero THEN Zero
       ELSE _clamp01(RDiv(numerator, value))

\* a weighted sum that never divides the weights
WeightedSum_DivisorOne(metrics_values, type_of, weight_of, weight_divisor, max_by_metric, min_by_metric) ==
  RSum([m \in DOMAIN metrics_values |->
          RMul(weight_of[m],
               NormalizedValue(type_of[m], metrics_values[m],
                               max_by_metric, min_by_metric, m))],
       DOMAIN metrics_values)

\* sum over the available metrics of weight_share * normalized_value
WeightedSum(metrics_values, type_of, weight_of, weight_divisor, max_by_metric, min_by_metric) ==
  Only({RSum([m \in DOMAIN values |->
                RMul(RDiv(weight_of[m], divisor),
                     NormalizedValue(type_of[m], values[m],
                                     max_by_metric, min_by_metric, m))],
             DOMAIN values) :
          values \in {metrics_values}, divisor \in {weight_divisor}})

\* a per-ticker loop that redistributes the weights under every policy
ScoreTicker_Redistribute(ticker, metrics_values, requested, type_of, weight_of, missing_policy, max_by_metric, min_by_metric) ==
  Only({
    IF missing_policy = "drop" /\ requested \ DOMAIN metrics_values # {}
    THEN [kind |-> "dropped", ticker |-> ticker,
          missing_metrics |-> requested \ DOMAIN metrics_values]
    ELSE IF RLe(available_weight_sum, Zero)
    THEN [kind |-> "skipped", ticker |-> ticker]
    ELSE [kind |-> "ranked", ticker |-> ticker,
          score |-> Round6(WeightedSum(metrics_values, type_of, weight_of,
                                       available_weight_sum,
                                       max_by_metric, min_by_metric))] :
      available_weight_sum \in
        {RSum([m \in DOMAIN metrics_values |-> weight_of[m]],
              DOMAIN metrics_values)}})

\* the body of the per-ticker loop of calculate_wsm_score:
\* "ranked" with a score, "dropped" with the missing metrics, or "skipped"
ScoreTicker(ticker, metrics_values, requested, type_of, weight_of, missing_policy, max_by_metric, min_by_metric) ==
  LET available == DOMAIN metrics_values
      missing == requested \ available
  IN  Only({
        IF missing_policy = "drop" /\ missing # {}
        THEN [kind |-> "dropped", ticker |-> ticker, missing_metrics |-> missing]
        ELSE IF missing_policy = "redistribute" /\ RLe(available_weight_sum, Zero)
        THEN [kind |-> "skipped", ticker |-> ticker]
        ELSE [kind |-> "ranked", ticker |-> ticker,
              score |->
                Round6(WeightedSum(
                         metrics_values, type_of, weight_of,
                         IF missing_policy = "redistribute"
                         THEN available_weight_sum ELSE One,
                         max_by_metric, min_by_metric))] :
          available_weight_sum \in
            {RSum([m \in available |-> weight_of[m]], available)}})

\* calculate_wsm_score from the sort on: the ranking, the limit, the
\* response, and the locals the response was computed from
ScoreResponse(payload, type_of, weight_of, ticker_metric_values, max_by_metric, min_by_metric, outcome) ==
  LET ranked == SelectSeq(outcome, LAMBDA o : o.kind = "ranked")
      items == [i \in DOMAIN ranked |->
                  [ticker |-> ranked[i].ticker, score |-> ranked[i].score]]
      sorted == StableSort(items, [i, j \in DOMAIN items |->
                                     items[i].score > items[j].score])
      dropped_sel == SelectSeq(outcome, LAMBDA o : o.kind = "dropped")
  IN  Only({
        IF ranking = <<>> /\ payload.missing_policy # "drop" THEN Err("NotFound")
        ELSE [err |-> "",
              val |-> [year |-> payload.year, ranking |-> ranking,
                       dropped_tickers |-> dropped],
              normalized_weights |-> weight_of,
              metric_type |-> type_of,
              ticker_metric_values |-> ticker_metric_values,
              max_by_metric |-> max_by_metric,
              min_by_metric |-> min_by_metric,
              normalized |->
                [t \in DOMAIN ticker_metric_values |->
                   [m \in DOMAIN ticker_metric_values[t] |->
                      NormalizedValue(type_of[m], ticker_metric_values[t][m],
                                      max_by_metric, min_by_metric, m)]]] :
          ranking \in {IF payload.limit # None
                       THEN Take(sorted, Get(payload.limit)) ELSE sorted},
          dropped \in {[i \in DOMAIN dropped_sel |->
                          [ticker |-> dropped_sel[i].ticker,
                           missing_metrics |-> dropped_sel[i].missing_metrics]]}})

\* calculate_wsm_score from the fetch of the rows to the per-ticker loop
ScoreRows(data, payload, row_order, names, type_of, weight_of) ==
  Only({
    IF DOMAIN ticker_metric_values = {} THEN Err("NotFound")
    ELSE Only({
           ScoreResponse(
             payload, type_of, weight_of, ticker_metric_values,
             max_by_metric, min_by_metric,
             LET order == SelectSeq(row_order,
                                    LAMBDA t : t \in DOMAIN ticker_metric_values)
             IN  [i \in DOMAIN order |->
                    ScoreTicker(order[i], ticker_metric_values[order[i]], names,
                                type_of, weight_of, payload.missing_policy,
                                max_by_metric, min_by_metric)]) :
             max_by_metric \in
               {MaxByMetric(ValuesByMetric(ticker_metric_values, names))},
             min_by_metric \in
               {MinByMetric(ValuesByMetric(ticker_metric_values, names))}}) :
      ticker_metric_values \in
        {TickerMetricValues(data, payload.year, names, type_of, payload.tickers)}})

\* calculate_wsm_score; row_order is the order in which the store returns
\* the tickers' rows (the query has no ORDER BY)
\* a check that finds no disabled metric
disabled_in_request_Nothing(effective_metrics) == {}

\* the names of the effective metrics that are disabled
disabled_in_request(effective_metrics) ==
  {effective_metrics[i].metric_name : i \in DOMAIN effective_metrics}
    \cap DISABLED_METRICS

calculate_wsm_score(data, payload, user_id, row_order) ==
  Only({
    LET metrics == effective_metrics.val
        names == {metrics[i].metric_name : i \in DOMAIN metrics}
    IN
    IF ~IsOk(effective_metrics) THEN effective_metrics
    ELSE IF metrics = <<>> THEN Err("InvalidInput")
    ELSE IF disabled_in_request(metrics) # {} THEN Err("InvalidInput")
    ELSE Only({
           IF ~IsOk(normalized_weights) THEN normalized_weights
           ELSE IF \E m \in names : m \notin MetricNames THEN Err("InvalidInput")
           ELSE ScoreRows(data, payload, row_order, metric_names, type_of,
                          normalized_weights.val) :
             normalized_weights \in {_normalize_weights(metrics)},
             metric_names \in {names},
             type_of \in {[m \in names |-> LastOf(metrics, m).type]}}) :
      effective_metrics \in
        {_resolve_metrics_from_source(payload.metrics, payload.weight_template_id,
                                      payload.weight_scope, payload.weights_json,
                                      user_id)}})


(***************************************************************************)
(* ScorePreview                                                             *)
(***************************************************************************)
\* a label whose High threshold is exclusive
_compute_confidence_label_Above(pct) ==
  IF RLt(<<9, 10>>, pct) THEN "High"
  ELSE IF RLe(<<3, 4>>, pct) THEN "Medium"
  ELSE "Low"

_compute_confidence_label(pct) ==
  IF RLe(<<9, 10>>, pct) THEN "High"
  ELSE IF RLe(<<3, 4>>, pct) THEN "Medium"
  ELSE "Low"

\* CoverageSummary(used, total, pct=round(used / total_metrics, 6))
CoverageSummary(used, total_metrics) ==
  [used |-> used, total |-> total_metrics,
   pct |-> IF total_metrics = 0 THEN 0 ELSE Round6(Rat(used, total_metrics))]

\* the confidence of a preview item: the label of the rounded coverage.pct
PreviewConfidence(coverage) == _compute_confidence_label(Rat(coverage.pct, 1000000))

\* coverage over the whole catalog, for every ticker with a row that year
_coverage_by_ticker(data, year) ==
  LET mapping_entries == load_metric_mapping_list
      metric_names == {mapping_entries[i].metric_name : i \in DOMAIN mapping_entries}
      used(t) == Cardinality({m \in metric_names : data[t, m, year] # None})
      tickers == {t \in Tickers : used(t) > 0}
      total_metrics == Cardinality(metric_names)
  IN  IF mapping_entries = <<>> THEN Err("InvalidInput")
      ELSE IF tickers = {} THEN Err("NotFound")
      ELSE Ok([t \in tickers |-> CoverageSummary(used(t), total_metrics)])

\* key (-score, -coverage.pct, ticker)
PreviewBefore(a, b) ==
  \/ a.score > b.score
  \/ a.score = b.score /\ a.coverage.pct > b.coverage.pct
  \/ a.score = b.score /\ a.coverage.pct = b.coverage.pct
     /\ TickerPos(a.ticker) < TickerPos(b.ticker)

\* the ranking of calculate_wsm_score_preview: the items of the base
\* ranking with their coverage, sorted again, then numbered
PreviewRanking(ranking, coverage_by) ==
  LET total_metrics ==
        LET t == CHOOSE u \in DOMAIN coverage_by : TRUE
        IN  coverage_by[t].total
  IN  Only({
        Only({[i \in DOMAIN sorted |->
                 [rank |-> i, ticker |-> sorted[i].ticker,
                  score |-> sorted[i].score,
                  coverage |-> sorted[i].coverage,
                  confidence |-> sorted[i].confidence]] :
                sorted \in {StableSort(items,
                                       [i, j \in DOMAIN items |->
                                          PreviewBefore(items[i], items[j])])}}) :
          items \in
            {[i \in DOMAIN ranking |->
                LET coverage ==
                      IF ranking[i].ticker \in DOMAIN coverage_by
                      THEN coverage_by[ranking[i].ticker]
                      ELSE [used |-> 0, total |-> total_metrics, pct |-> 0]
                IN  [ticker |-> ranking[i].ticker, score |-> ranking[i].score,
                     coverage |-> coverage,
                     confidence |-> PreviewConfidence(coverage)]]}})

calculate_wsm_score_preview(data, payload, user_id, row_order) ==
  Only({IF ~IsOk(base_result) THEN base_result
        ELSE IF ~IsOk(coverage_by) THEN coverage_by
        ELSE Ok([year |-> payload.year,
                 missing_policy |-> payload.missing_policy,
                 ranking |-> PreviewRanking(base_result.val.ranking,
                                            coverage_by.val),
                 dropped_tickers |-> base_result.val.dropped_tickers]) :
          base_result \in {calculate_wsm_score(data, payload, user_id, row_order)},
          coverage_by \in {_coverage_by_ticker(data, payload.year)}})

(***************************************************************************)
(* Scorecard                                                                *)
(***************************************************************************)
\* compute_scorecard.compute_for_ticker
compute_for_ticker(ticker, ticker_values, mapping_entries, effective_weights, missing_policy, max_by_metric, min_by_metric) ==
  LET names == {mapping_entries[i].metric_name : i \in DOMAIN mapping_entries}
      metric_map == IF ticker \in DOMAIN ticker_values
                    THEN ticker_values[ticker] ELSE <<>>
      available == DOMAIN metric_map
      missing == names \ available
  IN  Only({
        LET weight_divisor ==
              IF missing_policy = "redistribute" THEN available_weight_sum ELSE One
            row(entry) ==
              LET m == entry.metric_name
                  is_missing == m \notin available
              IN  Only({
                    [metric_name |-> m,
                     section |-> _normalize_section_key(entry.section),
                     type |-> entry.type,
                     raw_value |-> IF is_missing THEN None ELSE Some(metric_map[m]),
                     normalized_value |-> normalized_value,
                     effective_weight |-> weight_share,
                     contribution |->
                       IF is_missing THEN Zero
                       ELSE RMul(weight_share, normalized_value),
                     is_missing |-> is_missing] :
                      normalized_value \in
                        {IF is_missing THEN Zero
                         ELSE NormalizedValue(entry.type, metric_map[m],
                                              max_by_metric, min_by_metric, m)},
                      weight_share \in
                        {IF is_missing /\ missing_policy = "redistribute" THEN Zero
                         ELSE RDiv(GetOr0(effective_weights, m), weight_divisor)}})
        IN
        IF missing_policy = "drop" /\ missing # {}
        THEN [kind |-> "dropped", missing_names |-> missing]
        ELSE IF missing_policy = "redistribute" /\ RLe(available_weight_sum, Zero)
        THEN [kind |-> "none"]
        ELSE Only({
               [kind |-> "ok",
                total_score |->
                  Round6(RSumSeq([i \in DOMAIN metric_rows |->
                                    metric_rows[i].contribution])),
                coverage_used |-> Cardinality(available),
                coverage_pct |-> Rat(Cardinality(available), Cardinality(names)),
                missing |-> missing,
                section_totals |->
                  [sec \in Range(Sections) |->
                     RSumSeq([i \in DOMAIN metric_rows |->
                                IF metric_rows[i].section = sec
                                THEN metric_rows[i].contribution ELSE Zero])],
                metrics |-> metric_rows] :
                 metric_rows \in
                   {[i \in DOMAIN mapping_entries |-> row(mapping_entries[i])]}}) :
          available_weight_sum \in
            {RSum([m \in available |-> GetOr0(effective_weights, m)], available)}})

\* the confidence of compute_scorecard: its own thresholds, on the
\* coverage_pct before rounding
ScorecardConfidence(coverage_pct) ==
  IF RLe(<<9, 10>>, coverage_pct) THEN "High"
  ELSE IF RLe(<<3, 4>>, coverage_pct) THEN "Medium"
  ELSE "Low"

\* compute_scorecard._sort_key on (ticker, data) pairs
_sort_key_before(a, b) ==
  Only({\E i \in 1..6 : RLt(ka[i], kb[i]) /\ \A j \in 1..(i - 1) : ka[j] = kb[j] :
          ka \in {<<RNeg(ToFloat(a.data.total_score)), RNeg(a.data.coverage_pct),
                    RNeg(a.data.section_totals["balance"]),
                    RNeg(a.data.section_totals["income"]),
                    RNeg(a.data.section_totals["cash_flow"]),
                    ToFloat(TickerPos(a.ticker))>>},
          kb \in {<<RNeg(ToFloat(b.data.total_score)), RNeg(b.data.coverage_pct),
                    RNeg(b.data.section_totals["balance"]),
                    RNeg(b.data.section_totals["income"]),
                    RNeg(b.data.section_totals["cash_flow"]),
                    ToFloat(TickerPos(b.ticker))>>}})

\* compute_scorecard from the ranking on; computed is ticker -> the result
\* of compute_for_ticker
ScorecardResponse(payload, row_order, metric_names, effective_weights, computed) ==
  LET order == SelectSeq(row_order, LAMBDA t : t \in DOMAIN computed)
      eligible == SelectSeq(order, LAMBDA t : computed[t].kind = "ok")
      pairs == [i \in DOMAIN eligible |->
                  [ticker |-> eligible[i], data |-> computed[eligible[i]]]]
      scorecard_data == computed[payload.ticker]
      coverage_pct == scorecard_data.coverage_pct
  IN  Only({
        IF ranking_data = <<>> THEN Err("NotFound")
        ELSE IF scorecard_data.kind = "dropped"
        THEN [err |-> "Unprocessable",
              missing_metrics |-> scorecard_data.missing_names]
        ELSE IF scorecard_data.kind = "none" THEN Err("NotFound")
        ELSE [err |-> "",
              val |-> [year |-> payload.year, ticker |-> payload.ticker,
                       total_score |-> scorecard_data.total_score,
                       rank |-> CHOOSE i \in DOMAIN ranking_data :
                                  ranking_data[i].ticker = payload.ticker,
                       coverage |-> [used |-> scorecard_data.coverage_used,
                                     total |-> Cardinality(metric_names),
                                     pct |-> Round6(coverage_pct),
                                     missing |-> scorecard_data.missing],
                       confidence |-> ScorecardConfidence(coverage_pct),
                       section_subtotals |->
                         [sec \in Range(Sections) |->
                            Round6(scorecard_data.section_totals[sec])],
                       metrics |-> scorecard_data.metrics],
              ranking_data |->
                [i \in DOMAIN ranking_data |-> ranking_data[i].ticker],
              effective_weights |-> effective_weights] :
          ranking_data \in
            {StableSort(pairs, [i, j \in DOMAIN pairs |->
                                  _sort_key_before(pairs[i], pairs[j])])}})

compute_scorecard(data, payload, user_id, row_order) ==
  LET defaults == _prepare_mapping_defaults
      mapping_entries == defaults.val.mapping_entries
      metric_names == {mapping_entries[i].metric_name : i \in DOMAIN mapping_entries}
      template ==
        IF payload.weight_template_id # None
        THEN _load_weight_template_owned(Get(payload.weight_template_id), user_id)
        ELSE Ok(None)
      weight_scope == IF payload.weight_template_id # None
                      THEN Some(template.val.scope) ELSE payload.weight_scope
      weights_json == IF payload.weight_template_id # None
                      THEN Some(template.val.weights_json)
                      ELSE payload.weights_json
      type_of == [m \in metric_names |-> Entry(m).type]
  IN
  IF ~IsOk(defaults) THEN defaults
  ELSE IF ~IsOk(template) THEN template
  ELSE Only({
         IF ~IsOk(effective_weights) THEN effective_weights
         ELSE IF DOMAIN ticker_values = {} THEN Err("NotFound")
         ELSE IF payload.ticker \notin DOMAIN ticker_values THEN Err("NotFound")
         ELSE Only({
                ScorecardResponse(
                  payload, row_order, metric_names, effective_weights.val,
                  [t \in DOMAIN ticker_values |->
                     compute_for_ticker(t, ticker_values, mapping_entries,
                                        effective_weights.val,
                                        payload.missing_policy,
                                        max_by_metric, min_by_metric)]) :
                  max_by_metric \in
                    {MaxByMetric(ValuesByMetric(ticker_values, metric_names))},
                  min_by_metric \in
                    {MinByMetric(ValuesByMetric(ticker_values, metric_names))}}) :
           effective_weights \in
             {_resolve_metric_weight_map(weight_scope, weights_json, defaults.val)},
           ticker_values \in
             {TickerMetricValues(data, payload.year, metric_names, type_of, None)}})

(***************************************************************************)
(* Simulation                                                               *)
(***************************************************************************)
\* a basis that takes the override values in
SingleValuesByMetric_WithOverrides(row_values, override_values) ==
  [m \in DOMAIN row_values |->
     row_values[m] \cup (IF m \in DOMAIN override_values
                         THEN override_values[m] ELSE {})]

\* values_by_metric of _compute_single_ticker_score: built from the store's
\* rows only; the override values (metric -> value) never enter it
SingleValuesByMetric(row_values, override_values) == row_values

\* _compute_single_ticker_score from the min/max basis on; all_values are
\* the fetched rows, normalized_weights the weights over their total
SingleTickerScore(ticker, picked, type_of, normalized_weights, missing_policy, overrides, all_values) ==
  LET override_values ==
        IF overrides = None THEN <<>>  \* "if overrides:" also skips {}
        ELSE [m \in DOMAIN Get(overrides) \cap picked |->
                AdjustedValue(type_of[m], Get(overrides)[m])]
      values_by_metric ==
        SingleValuesByMetric(ValuesByMetric(all_values, picked),
                             [m \in DOMAIN override_values |->
                                {override_values[m]}])
      row_values == IF ticker \in DOMAIN all_values THEN all_values[ticker]
                    ELSE <<>>
  IN  Only({
        LET basis == Some([max_by_metric |-> max_by_metric,
                           min_by_metric |-> min_by_metric])
            available == DOMAIN ticker_values
            missing == picked \ available
        IN
        IF available = {} THEN [score |-> None, basis |-> None]
        ELSE IF missing_policy = "drop" /\ missing # {}
        THEN [score |-> None, basis |-> basis]
        ELSE Only({
               IF missing_policy = "redistribute" /\ RLe(available_weight_sum, Zero)
               THEN [score |-> None, basis |-> basis]
               ELSE [score |->
                       Some(Round6(WeightedSum(
                                     ticker_values, type_of, weight_of,
                                     IF missing_policy = "redistribute"
                                     THEN available_weight_sum ELSE One,
                                     max_by_metric, min_by_metric))),
                     basis |-> basis] :
                 available_weight_sum \in
                   {RSum([m \in available |-> weight_of[m]], available)}}) :
          weight_of \in {normalized_weights},
          ticker_values \in
            {[m \in DOMAIN row_values \cup DOMAIN override_values |->
                IF m \in DOMAIN override_values THEN override_values[m]
                ELSE row_values[m]]},
          max_by_metric \in {MaxByMetric(values_by_metric)},
          min_by_metric \in {MinByMetric(values_by_metric)}})

\* _compute_single_ticker_score; overrides is None or <<metric -> value>>.
\* The result carries the score (None when the code returns None) and, once
\* computed, the min/max basis the pass normalized against.
_compute_single_ticker_score(data, ticker, year, metrics, missing_policy, overrides) ==
  LET metric_names == {metrics[i].metric_name : i \in DOMAIN metrics}
      picked == metric_names \cap MetricNames
      type_of == [m \in metric_names |-> LastOf(metrics, m).type]
  IN
  IF metrics = <<>> THEN [score |-> None, basis |-> None]
  ELSE IF picked = {} THEN [score |-> None, basis |-> None]
  ELSE Only({
         IF RLe(total_weight, Zero) THEN [score |-> None, basis |-> None]
         ELSE IF DOMAIN all_values = {} THEN [score |-> None, basis |-> None]
         ELSE SingleTickerScore(
                ticker, picked, type_of,
                [m \in metric_names |->
                   RDiv(LastOf(metrics, m).weight, total_weight)],
                missing_policy, overrides, all_values) :
           total_weight \in {RSumSeq([i \in DOMAIN metrics |-> metrics[i].weight])},
           all_values \in {TickerMetricValues(data, year, picked, type_of, None)}})

\* _get_metric_raw_value without overrides: the stored value, not adjusted
_get_metric_raw_value(data, ticker, year, metric_name) ==
  IF metric_name \notin CatalogNames THEN None
  ELSE IF data[ticker, metric_name, year] = None THEN None
  ELSE Some(ToFloat(Get(data[ticker, metric_name, year])))

\* base_raw * (1.0 + o.value / 100.0)
SimulatedRaw(base_raw, percent) ==
  RMul(base_raw, RAdd(One, Rat(percent, 100)))

\* an overrides_dict that also takes the overrides of metrics without a
\* stored value, reading the missing value as 0
OverridesDict_KeepMissing(data, ticker, year, effective_overrides) ==
  Only({
    LET names == {overrides[i].metric_name : i \in DOMAIN overrides}
        last(m) == CHOOSE i \in DOMAIN overrides :
                     /\ overrides[i].metric_name = m
                     /\ \A j \in DOMAIN overrides :
                          overrides[j].metric_name = m => j <= i
        base_raw(m) ==
          IF _get_metric_raw_value(data, ticker, year, m) = None THEN Zero
          ELSE Get(_get_metric_raw_value(data, ticker, year, m))
    IN  IF overrides = <<>> THEN None
        ELSE Some([m \in names |->
                     SimulatedRaw(base_raw(m), overrides[last(m)].value)]) :
      overrides \in {effective_overrides}})

\* the overrides_dict of run_simulation: for every in-scope override whose
\* metric has a stored value, in list order (a later item replaces an
\* earlier one for the same metric); None when there is no in-scope override
OverridesDict(data, ticker, year, effective_overrides) ==
  Only({
    LET usable ==
          {i \in DOMAIN overrides :
             _get_metric_raw_value(data, ticker, year,
                                   overrides[i].metric_name) # None}
        names == {overrides[i].metric_name : i \in usable}
        last(m) == CHOOSE i \in usable :
                     /\ overrides[i].metric_name = m
                     /\ \A j \in usable : overrides[j].metric_name = m => j <= i
    IN  IF overrides = <<>> THEN None
        ELSE Some([m \in names |->
                     SimulatedRaw(
                       Get(_get_metric_raw_value(data, ticker, year, m)),
                       overrides[last(m)].value)]) :
      overrides \in {effective_overrides}})

\* run_simulation reads payload.weight_scope, payload.weights_json and
\* payload.weight_template_id; a payload object without these attributes
\* (the SimulationRequest schema declares none of them) raises AttributeError
HasWeightSource(payload) ==
  {"weight_scope", "weights_json", "weight_template_id"} \subseteq DOMAIN payload

\* the response of run_simulation when the scope holds no metric
EmptySimulation(payload) ==
  Ok([ticker |-> payload.ticker, year |-> payload.year,
      baseline_score |-> None, simulated_score |-> None, delta |-> None,
      applied_overrides |-> <<>>, adjustments_detail |-> <<>>,
      message |-> Some([kind |-> "no_metrics"])])

\* one entry of adjustments_detail: the record run_simulation keeps of one
\* requested override
AdjustmentDetail(data, payload, override, metric_names_in_scope) ==
  LET metric_name == override.metric_name
      has_definition == metric_name \in MetricNames
      in_scope == metric_name \in metric_names_in_scope
      baseline_val ==
        IF has_definition
        THEN _get_metric_raw_value(data, payload.ticker, payload.year, metric_name)
        ELSE None
  IN  [metric_name |-> metric_name,
       adjustment_percent |-> override.value,
       baseline_value |-> baseline_val,
       simulated_value |->
         IF baseline_val = None THEN None
         ELSE Some(SimulatedRaw(Get(baseline_val), override.value)),
       affects_score |-> in_scope /\ has_definition,
       ignored |-> FALSE,
       reason |-> IF has_definition /\ baseline_val = None
                  THEN Some("missing data") ELSE None,
       unmatched_reason |->
         IF ~has_definition THEN Some("Metric definition not found")
         ELSE IF ~in_scope THEN Some("Metric not in scope")
         ELSE None]

\* run_simulation from the metrics of the scope on: the overrides in scope,
\* the baseline pass, the simulated pass, the response
SimulateMetrics(data, payload, scope_metrics) ==
  Only({
    LET metric_names_in_scope == {metrics[i].metric_name : i \in DOMAIN metrics}
        effective_overrides ==
          SelectSeq(payload.overrides,
                    LAMBDA o : o.metric_name \in metric_names_in_scope)
        ignored_overrides ==
          SelectSeq(payload.overrides,
                    LAMBDA o : o.metric_name \notin metric_names_in_scope)
    IN
    IF metrics = <<>> THEN EmptySimulation(payload)
    ELSE Only({
           Only({
             [err |-> "",
              val |-> [ticker |-> payload.ticker, year |-> payload.year,
                       baseline_score |-> baseline.score,
                       simulated_score |-> simulated.score,
                       delta |->
                         IF baseline.score # None /\ simulated.score # None
                         THEN Some(Get(simulated.score) - Get(baseline.score))
                         ELSE None,
                       applied_overrides |-> payload.overrides,
                       adjustments_detail |->
                         [i \in DOMAIN payload.overrides |->
                            AdjustmentDetail(data, payload, payload.overrides[i],
                                             metric_names_in_scope)],
                       message |->
                         IF baseline.score = None
                         THEN Some([kind |-> "no_baseline"])
                         ELSE IF ignored_overrides # <<>>
                         THEN Some([kind |-> "ignored",
                                    names |->
                                      [i \in DOMAIN ignored_overrides |->
                                         ignored_overrides[i].metric_name]])
                         ELSE None],
              baseline_basis |-> baseline.basis,
              simulated_basis |-> simulated.basis,
              overrides_dict |-> overrides_dict] :
               simulated \in
                 {_compute_single_ticker_score(
                    data, payload.ticker, payload.year, metrics,
                    payload.missing_policy, overrides_dict)}}) :
             baseline \in
               {_compute_single_ticker_score(
                  data, payload.ticker, payload.year, metrics,
                  payload.missing_policy, None)},
             overrides_dict \in
               {OverridesDict(data, payload.ticker, payload.year,
                              effective_overrides)}}) :
      metrics \in {scope_metrics}})

run_simulation(data, payload, user_id) ==
  LET defaults == _prepare_mapping_defaults
      mapping_entries == defaults.val.mapping_entries
      template ==
        IF payload.weight_template_id # None
        THEN _load_weight_template_owned(Get(payload.weight_template_id), user_id)
        ELSE Ok(None)
      weight_scope == IF payload.weight_template_id # None
                      THEN Some(template.val.scope) ELSE payload.weight_scope
      weights_json == IF payload.weight_template_id # None
                      THEN Some(template.val.weights_json)
                      ELSE payload.weights_json
      section_key == _normalize_section_key(Get(payload.section))
      section_entries ==
        SelectSeq(mapping_entries,
                  LAMBDA e : _normalize_section_key(e.section) = section_key)
  IN
  IF payload.mode = "section" /\ payload.section = None THEN Err("InvalidInput")
  ELSE IF payload.ticker \notin Tickers THEN Err("InvalidInput")
  ELSE IF ~IsOk(defaults) THEN defaults
  ELSE IF ~HasWeightSource(payload) THEN Err("AttributeError")
  ELSE IF ~IsOk(template) THEN template
  ELSE Only({
         IF ~IsOk(weight_map) THEN weight_map
         ELSE IF payload.mode # "section"
         THEN SimulateMetrics(
                data, payload,
                _metric_inputs_from_weight_map(mapping_entries, weight_map.val))
         ELSE IF section_entries = <<>> THEN EmptySimulation(payload)
         ELSE Only({
                IF ~IsOk(section_weight_map) THEN section_weight_map
                ELSE SimulateMetrics(
                       data, payload,
                       _metric_inputs_from_weight_map(section_entries,
                                                      section_weight_map.val)) :
                  section_weight_map \in
                    {_normalize_weight_map(
                       [m \in {section_entries[i].metric_name :
                                 i \in DOMAIN section_entries}
                          |-> GetOr0(weight_map.val, m)])}}) :
           weight_map \in
             {_resolve_metric_weight_map(weight_scope, weights_json, defaults.val)}})

(***************************************************************************)
(* Compare                                                                  *)
(***************************************************************************)
\* list(range(year_from, year_to + 1))
YearList(year_from, year_to) ==
  [i \in 1..(IF year_to < year_from THEN 0 ELSE year_to - year_from + 1) |->
     year_from + i - 1]

\* a series that keeps the scores computed before the drop
TickerSeries_KeepComputed(ticker, years, year_scores, missing_policy) ==
  LET missing == {i \in DOMAIN years : year_scores[i] = None}
  IN  [ticker |-> ticker,
       scores |-> year_scores,
       missing_years |->
         SelectSeq(years, LAMBDA y : \E i \in missing : years[i] = y),
       dropped |-> missing_policy = "drop" /\ missing # {}]

\* the series of one item of payload.tickers, and whether the drop policy
\* drops it: year_scores[i] is the score of the ticker for years[i]
TickerSeries(ticker, years, year_scores, missing_policy) ==
  LET missing == {i \in DOMAIN years : year_scores[i] = None}
  IN  IF missing_policy = "drop" /\ missing # {}
      THEN [ticker |-> ticker,
            scores |-> [i \in DOMAIN years |-> None],
            missing_years |-> years,
            dropped |-> TRUE]
      ELSE [ticker |-> ticker,
            scores |-> year_scores,
            missing_years |->
              SelectSeq(years, LAMBDA y : \E i \in missing : years[i] = y),
            dropped |-> FALSE]

\* run_compare from the metrics of the scope on
CompareMetrics(data, payload, scope_metrics) ==
  Only({
    IF metrics = <<>> THEN Err("InvalidInput")
    ELSE Only({
           Ok([years |-> years,
               series |->
                 [k \in DOMAIN all_series |->
                    [ticker |-> all_series[k].ticker,
                     scores |-> all_series[k].scores,
                     missing_years |-> all_series[k].missing_years]],
               dropped_tickers |->
                 LET dropped == SelectSeq(all_series, LAMBDA x : x.dropped)
                 IN  [k \in DOMAIN dropped |-> dropped[k].ticker]]) :
             all_series \in
               {[k \in DOMAIN payload.tickers |->
                   TickerSeries(
                     payload.tickers[k], years,
                     [i \in DOMAIN years |->
                        _compute_single_ticker_score(
                          data, payload.tickers[k], years[i], metrics,
                          payload.missing_policy, None).score],
                     payload.missing_policy)]}}) :
      metrics \in {scope_metrics},
      years \in {YearList(payload.year_from, payload.year_to)}})

run_compare(data, payload, user_id) ==
  LET defaults == _prepare_mapping_defaults
      mapping_entries == defaults.val.mapping_entries
      template ==
        IF payload.weight_template_id # None
        THEN _load_weight_template_owned(Get(payload.weight_template_id), user_id)
        ELSE Ok(None)
      weight_scope == IF payload.weight_template_id # None
                      THEN Some(template.val.scope) ELSE payload.weight_scope
      weights_json == IF payload.weight_template_id # None
                      THEN Some(template.val.weights_json)
                      ELSE payload.weights_json
      section_key == _normalize_section_key(Get(payload.section))
      section_entries ==
        SelectSeq(mapping_entries,
                  LAMBDA e : _normalize_section_key(e.section) = section_key)
  IN
  IF payload.year_from > payload.year_to THEN Err("InvalidInput")
  ELSE IF payload.mode = "section" /\ payload.section = None
  THEN Err("InvalidInput")
  ELSE IF \E k \in DOMAIN payload.tickers : payload.tickers[k] \notin Tickers
  THEN Err("InvalidInput")
  ELSE IF ~IsOk(defaults) THEN defaults
  ELSE IF ~IsOk(template) THEN template
  ELSE Only({
         IF ~IsOk(weight_map) THEN weight_map
         ELSE IF payload.mode # "section"
         THEN CompareMetrics(
                data, payload,
                _metric_inputs_from_weight_map(mapping_entries, weight_map.val))
         ELSE IF section_entries = <<>> THEN Err("InvalidInput")
         ELSE Only({
                IF ~IsOk(section_weight_map) THEN section_weight_map
                ELSE CompareMetrics(
                       data, payload,
                       _metric_inputs_from_weight_map(section_entries,
                                                      section_weight_map.val)) :
                  section_weight_map \in
                    {_normalize_weight_map(
                       [m \in {section_entries[i].metric_name :
                                 i \in DOMAIN section_entries}
                          |-> GetOr0(weight_map.val, m)])}}) :
           weight_map \in
             {_resolve_metric_weight_map(weight_scope, weights_json, defaults.val)}})

(***************************************************************************)
(* Audit records, the response cache and the routes of api/routes/wsm.py    *)
(***************************************************************************)
\* _safe_commit, and the try/except around every audit write: the pending
\* rows are committed, or rolled back when the add, the flush or the commit
\* raises
_safe_commit(pending, commit_ok) == IF commit_ok THEN pending ELSE <<>>

\* the audit row a service function writes for the caller user_id (none
\* for an anonymous call)
AuditRow(kind, user_id, commit_ok) ==
  IF user_id = None THEN <<>>
  ELSE _safe_commit(<<[kind |-> kind, user_id |-> Get(user_id)]>>, commit_ok)

\* the fields of core.config.Settings; reading any other attribute of
\* settings raises AttributeError (extra="ignore" keeps no other key)
SettingsFields ==
  {"DB_HOST", "DB_PORT", "DB_NAME", "DB_USER", "DB_PASSWORD",
   "REDIS_HOST", "REDIS_PORT", "SESSION_SECRET"}

\* json.dumps of (user_id, payload, extra) with sorted keys, hashed
_cache_key(prefix, user_id, payload, extra) ==
  [prefix |-> prefix, user_id |-> user_id, payload |-> payload, extra |-> extra]

\* deps.get_redis: the client, or None when Redis cannot be reached; the
\* except clause catches RedisError, OSError and ValueError only
get_redis(redis_up) ==
  IF "REDIS_URL" \notin SettingsFields THEN Err("AttributeError")
  ELSE Ok(IF redis_up THEN Some("client") ELSE None)

\* _try_get_cached; get_outcome is what redis_client.get does: "ok",
\* "error" (it raises) or "undecodable" (json.loads raises)
_try_get_cached(redis_client, store, key, get_outcome) ==
  IF "REDIS_CACHE_ENABLED" \notin SettingsFields THEN Err("AttributeError")
  ELSE IF redis_client = None THEN Ok(None)
  ELSE IF get_outcome # "ok" THEN Ok(None)
  ELSE IF key \notin DOMAIN store THEN Ok(None)
  ELSE Ok(Some(store[key]))

\* _try_set_cached: the store after setex, unchanged when setex raises
_try_set_cached(redis_client, store, key, value, set_ok) ==
  IF "REDIS_CACHE_ENABLED" \notin SettingsFields THEN Err("AttributeError")
  ELSE IF redis_client = None \/ ~set_ok THEN Ok(store)
  ELSE IF "REDIS_CACHE_TTL_SECONDS" \notin SettingsFields THEN Ok(store)
  ELSE Ok([k \in DOMAIN store \cup {key} |->
             IF k = key THEN value ELSE store[k]])

\* result.model_dump() and ResponseModel.model_validate(cached): the
\* fields of the response schema, without what the model keeps beside them
model_dump(result) == result.val
model_validate(cached) == [err |-> "", val |-> cached]

\* the part the three cached routes share: look the key up, on a miss
\* compute and store; computed is the result of the service function
CachedResult(store, key, computed, redis_up, get_outcome, set_ok) ==
  Only({
    IF ~IsOk(redis_client)
    THEN [result |-> redis_client, redis_store |-> store, from_cache |-> FALSE]
    ELSE Only({
           IF ~IsOk(cached)
           THEN [result |-> cached, redis_store |-> store, from_cache |-> FALSE]
           ELSE IF cached.val # None
           THEN [result |-> model_validate(Get(cached.val)),
                 redis_store |-> store, from_cache |-> TRUE]
           ELSE Only({
                  IF ~IsOk(result)
                  THEN [result |-> result, redis_store |-> store,
                        from_cache |-> FALSE]
                  ELSE Only({
                         IF ~IsOk(stored)
                         THEN [result |-> stored, redis_store |-> store,
                               from_cache |-> FALSE]
                         ELSE [result |-> result, redis_store |-> stored.val,
                               from_cache |-> FALSE] :
                           stored \in
                             {_try_set_cached(redis_client.val, store, key,
                                              model_dump(result), set_ok)}}) :
                    result \in {computed}}) :
             cached \in
               {_try_get_cached(redis_client.val, store, key, get_outcome)}}) :
      redis_client \in {get_redis(redis_up)}})

\* a score route that lets a failed audit write reach the caller
wsm_score_Unguarded(data, payload, user_id, row_order, service_commit, route_commit) ==
  Only({
    IF ~IsOk(result) THEN [result |-> result, persisted |-> <<>>]
    ELSE IF ~service_commit \/ ~route_commit
    THEN [result |-> Err("InternalError"), persisted |-> <<>>]
    ELSE [result |-> result,
          persisted |-> <<[kind |-> "ScoringResult", user_id |-> Get(user_id)]>>] :
      result \in {calculate_wsm_score(data, payload, user_id, row_order)}})

\* POST /api/wsm/score: the ranking, the ScoringResult row of the service
\* function, then in one transaction the ScoringRun, one ScoringRunItem per
\* ranked issuer and a second ScoringResult
wsm_score(data, payload, user_id, row_order, service_commit, route_commit) ==
  Only({
    IF ~IsOk(result) THEN [result |-> result, persisted |-> <<>>]
    ELSE [result |-> result,
          persisted |->
            AuditRow("ScoringResult", user_id, service_commit)
            \o _safe_commit(
                 <<[kind |-> "ScoringRun", user_id |-> Get(user_id)]>>
                 \o [i \in DOMAIN result.val.ranking |->
                       [kind |-> "ScoringRunItem", rank |-> i,
                        ticker |-> result.val.ranking[i].ticker]]
                 \o <<[kind |-> "ScoringResult", user_id |-> Get(user_id)]>>,
                 route_commit)] :
      result \in {calculate_wsm_score(data, payload, user_id, row_order)}})

\* POST /api/wsm/score-preview
wsm_score_preview(data, store, payload, user_id, row_order, redis_up, get_outcome, set_ok) ==
  CachedResult(store,
               _cache_key("wsm:score_preview", user_id, payload, <<>>),
               calculate_wsm_score_preview(data, payload, user_id, row_order),
               redis_up, get_outcome, set_ok)

\* POST /api/wsm/simulate (debugSim off)
simulate(data, store, payload, user_id, redis_up, get_outcome, set_ok) ==
  CachedResult(store,
               _cache_key("wsm:simulate", user_id, payload,
                          [debugSim |-> FALSE]),
               run_simulation(data, payload, user_id),
               redis_up, get_outcome, set_ok)

\* POST /api/wsm/compare
compare(data, store, payload, user_id, redis_up, get_outcome, set_ok) ==
  CachedResult(store,
               _cache_key("wsm:compare", user_id, payload, <<>>),
               run_compare(data, payload, user_id),
               redis_up, get_outcome, set_ok)

(***************************************************************************)
(* The state machine                                                        *)
(*   financial_data : (ticker, metric, year) -> None or <<value>>           *)
(*   call           : the request being answered, with its result; NoCall   *)
(*                    when no request is in flight.  The engine is          *)
(*                    synchronous and request-scoped: a request is answered *)
(*                    over one state of the store, and its result is        *)
(*                    discarded when the response is returned.              *)
(***************************************************************************)
Values == (-1)..MaxVal
ObservationKeys == Tickers \X CatalogNames \X Years
NoCall == [op |-> "none"]

\* the orders in which the store may return the tickers' rows
RowOrders == {<<"OTHER", "TEST">>, <<"TEST", "OTHER">>}

MissingPolicies == {"zero", "redistribute", "drop"}

WSMScoreRequest(year, metrics, weight_template_id, weight_scope, weights_json, tickers, limit, missing_policy) ==
  [year |-> year, metrics |-> metrics,
   weight_template_id |-> weight_template_id, weight_scope |-> weight_scope,
   weights_json |-> weights_json, tickers |-> tickers, limit |-> limit,
   missing_policy |-> missing_policy]

\* weight sources of the scoring requests: catalog defaults, inline
\* metric-scope weights that leave Metric B at weight 0, and an explicit
\* list naming Metric A only
ScoreWeightSources ==
  { [metrics |-> None, weight_scope |-> None, weights_json |-> None],
    [metrics |-> None, weight_scope |-> Some("metric"),
     weights_json |-> Some("Metric A" :> ToFloat(1))],
    [metrics |-> Some(<<[metric_name |-> "Metric A", type |-> "benefit",
                         weight |-> ToFloat(1)]>>),
     weight_scope |-> None, weights_json |-> None] }

TickerFilters == {None} \cup {Some(S) : S \in (SUBSET Tickers) \ {{}}}
Limits == {None, Some(1)}

\* Score is asked with every ticker filter, and with a limit
ScoreRequests ==
  { WSMScoreRequest(y, src.metrics, None, src.weight_scope, src.weights_json,
                    f, None, mp) :
      y \in Years, src \in ScoreWeightSources, f \in TickerFilters,
      mp \in MissingPolicies }
  \cup
  { WSMScoreRequest(y, src.metrics, None, src.weight_scope, src.weights_json,
                    None, l, mp) :
      y \in Years, src \in ScoreWeightSources, l \in Limits,
      mp \in MissingPolicies }

\* ScorePreview is asked with and without a limit
PreviewRequests ==
  { WSMScoreRequest(y, src.metrics, None, src.weight_scope, src.weights_json,
                    None, l, mp) :
      y \in Years, src \in ScoreWeightSources, l \in Limits,
      mp \in MissingPolicies }

\* weight sources of Scorecard: catalog defaults, inline metric-scope
\* weights, inline section-scope weights that leave the balance section at
\* weight 0, and the templates by id
ScorecardWeightSources ==
  { [weight_template_id |-> None, weight_scope |-> x.weight_scope,
     weights_json |-> x.weights_json] :
      x \in {src \in ScoreWeightSources : src.metrics = None} }
  \cup
  { [weight_template_id |-> None, weight_scope |-> Some("section"),
     weights_json |-> Some("income" :> ToFloat(1))] }
  \cup
  { [weight_template_id |-> Some(id), weight_scope |-> None,
     weights_json |-> None] : id \in TemplateIds }

ScorecardRequests ==
  { [year |-> y, ticker |-> t, missing_policy |-> mp,
     weight_template_id |-> src.weight_template_id,
     weight_scope |-> src.weight_scope,
     weights_json |-> src.weights_json] :
      y \in Years, t \in Tickers, mp \in MissingPolicies,
      src \in ScorecardWeightSources }

\* percentages of the simulation overrides
Percents == {-200, 0, 100}
\* override lists: none, one metric, a metric without a definition, or
\* Metric A then Metric B
OverrideLists ==
  {<<>>}
  \cup {<<[metric_name |-> m, value |-> p]>> : m \in CatalogNames, p \in Percents}
  \cup {<<[metric_name |-> "Metric X", value |-> 100]>>}
  \cup {<<[metric_name |-> "Metric A", value |-> p],
          [metric_name |-> "Metric B", value |-> q]>> :
          p \in Percents, q \in Percents}

SimulationScopes ==
  { [mode |-> "overall", section |-> None],
    [mode |-> "section", section |-> Some("income")] }

\* the payloads run_simulation is called with: objects of the
\* SimulationRequest schema (ticker, year, mode, section, overrides,
\* missing_policy), and objects that also carry the weight-source attributes
\* the function reads, as CompareRequest and ScorecardRequest do
SimulationRequests ==
  { [ticker |-> "TEST", year |-> y, mode |-> sc.mode, section |-> sc.section,
     overrides |-> ov, missing_policy |-> mp] :
      y \in Years, sc \in SimulationScopes, ov \in OverrideLists,
      mp \in MissingPolicies }
  \cup
  { [ticker |-> "TEST", year |-> y, mode |-> sc.mode, section |-> sc.section,
     overrides |-> ov, missing_policy |-> mp, weight_template_id |-> None,
     weight_scope |-> src.weight_scope, weights_json |-> src.weights_json] :
      y \in Years, sc \in SimulationScopes, ov \in OverrideLists,
      mp \in MissingPolicies,
      src \in {x \in ScoreWeightSources : x.metrics = None} }

\* Compare requests over the years ys: one or two tickers (also one ticker
\* twice, and an unknown one), every year range, both modes, every missing
\* policy, with the catalog defaults, inline weights or a template
CompareTickerLists ==
  {<<"TEST">>, <<"OTHER">>, <<"TEST", "OTHER">>, <<"TEST", "TEST">>, <<"NOPE">>}
CompareWeightSources ==
  { [weight_template_id |-> None, weight_scope |-> None, weights_json |-> None],
    [weight_template_id |-> None, weight_scope |-> Some("metric"),
     weights_json |-> Some("Metric A" :> ToFloat(1))],
    [weight_template_id |-> Some(1), weight_scope |-> None,
     weights_json |-> None] }
CompareRequestsOver(ys) ==
  { [tickers |-> ts, year_from |-> y1, year_to |-> y2, mode |-> sc.mode,
     section |-> sc.section, missing_policy |-> mp,
     weight_template_id |-> src.weight_template_id,
     weight_scope |-> src.weight_scope, weights_json |-> src.weights_json] :
      ts \in CompareTickerLists, y1 \in ys, y2 \in ys,
      sc \in SimulationScopes, mp \in MissingPolicies,
      src \in CompareWeightSources }
CompareRequests == CompareRequestsOver(Years)

\* two years of observations: in each year an issuer has no row, a row for
\* Metric A only, or a row for both metrics (TEST 1, OTHER 2)
CompareYears == {2023, 2024}
RowShapes == {"none", "partial", "full"}
CompareStores ==
  { [k \in Tickers \X CatalogNames \X CompareYears |->
       IF shape[k[1], k[3]] = "none" THEN None
       ELSE IF shape[k[1], k[3]] = "partial" /\ k[2] = "Metric B" THEN None
       ELSE IF k[1] = "TEST" THEN Some(1) ELSE Some(2)] :
      shape \in [Tickers \X CompareYears -> RowShapes] }

\* weight sources of every kind, for the weight resolver: explicit lists
\* of one or two items, inline metric- and section-scope weights, templates
\* by id, and none of them (catalog defaults)
WeightInputs == 0..MaxWeight
ExplicitItems ==
  [metric_name : {"Metric A", "Metric B", "Metric X"},
   type : {"benefit", "cost"},
   weight : {ToFloat(w) : w \in WeightInputs}]
ExplicitLists ==
  {<<a>> : a \in ExplicitItems} \cup {<<a, b>> : a \in ExplicitItems, b \in ExplicitItems}
PartialMaps(keys, vals) ==
  UNION {[S -> vals] : S \in SUBSET keys}
InlineMetricWeights ==
  PartialMaps({"Metric A", "Metric B", "Metric X"},
              {ToFloat(w) : w \in WeightInputs \cup {101}})
InlineSectionWeights ==
  PartialMaps({"balance", "income", "cashflow", "foo"},
              {ToFloat(w) : w \in WeightInputs})

\* requests that give several weight sources at once: an explicit list
\* (absent, empty, of catalog metrics, or naming the disabled metric),
\* with or without a template id, with or without inline weights
MixedLists ==
  { None, Some(<<>>),
    Some(<<[metric_name |-> "Metric A", type |-> "benefit", weight |-> ToFloat(1)]>>),
    Some(<<[metric_name |-> "Metric B", type |-> "cost", weight |-> ToFloat(2)]>>),
    Some(<<[metric_name |-> "Operating Cash Flow", type |-> "benefit",
            weight |-> ToFloat(1)]>>),
    Some(<<[metric_name |-> "Metric A", type |-> "benefit", weight |-> ToFloat(1)],
           [metric_name |-> "Operating Cash Flow", type |-> "benefit",
            weight |-> ToFloat(1)]>>) }
MixedInline ==
  { [weight_scope |-> None, weights_json |-> None],
    [weight_scope |-> Some("metric"),
     weights_json |-> Some("Metric B" :> ToFloat(1))],
    [weight_scope |-> Some("metric"),
     weights_json |-> Some("Operating Cash Flow" :> ToFloat(1))],
    [weight_scope |-> None,
     weights_json |-> Some("Metric B" :> ToFloat(1))],
    [weight_scope |-> Some("section"),
     weights_json |-> Some("income" :> ToFloat(1))] }

\* catalogs of three metrics: P in the balance section, R in the income
\* section, Q in either, with default weights of up to MaxWeight
SectionCatalogs ==
  { << [metric_name |-> "P", section |-> "balance", type |-> "benefit",
        default_weight |-> wp],
       [metric_name |-> "Q", section |-> sq, type |-> "benefit",
        default_weight |-> wq],
       [metric_name |-> "R", section |-> "income", type |-> "cost",
        default_weight |-> wr] >> :
      wp \in 1..MaxWeight, wq \in WeightInputs, wr \in WeightInputs,
      sq \in {"balance", "income"} }

WeightRequests ==
  { WSMScoreRequest(2024, Some(l), None, None, None, None, None, "zero") :
      l \in ExplicitLists }
  \cup
  { WSMScoreRequest(2024, None, None, Some("metric"), Some(w), None, None,
                    "zero") : w \in InlineMetricWeights }
  \cup
  { WSMScoreRequest(2024, None, None, Some("section"), Some(w), None, None,
                    "zero") : w \in InlineSectionWeights }
  \cup
  { WSMScoreRequest(2024, None, t, None, None, None, None, "zero") :
      t \in {None} \cup {Some(id) : id \in TemplateIds \cup {3}} }
  \cup
  { WSMScoreRequest(2024, l, t, w.weight_scope, w.weights_json, None, None,
                    "zero") :
      l \in MixedLists, t \in {None} \cup {Some(id) : id \in TemplateIds \cup {3}},
      w \in MixedInline }

\* the store of test_simulation.py's _seed_sample_data: both issuers have
\* both metrics, OTHER twice TEST's value
SeededData ==
  [k \in ObservationKeys |-> IF k[1] = "TEST" THEN Some(1) ELSE Some(2)]

Init ==
  /\ financial_data = [k \in ObservationKeys |-> None]
  /\ call = NoCall
  /\ redis_store = <<>>

\* sync_data's upsert of one (ticker, metric, year) cell; value may be NULL
UpsertObservation ==
  \E k \in ObservationKeys, v \in {None} \cup {Some(x) : x \in Values} :
    /\ call = NoCall
    /\ financial_data[k] # v
    /\ financial_data' = [financial_data EXCEPT ![k] = v]
    /\ UNCHANGED <<call, redis_store>>

\* the call answered by a service function: its result, and the audit
\* rows it has committed (none when it raised)
Answered(op, payload, user_id, result, rows) ==
  Only({[op |-> op, payload |-> payload, user_id |-> user_id, result |-> r,
         persisted |-> IF IsOk(r) THEN rows ELSE <<>>] :
          r \in {result}})

Score ==
  \E payload \in ScoreRequests, row_order \in RowOrders, commit_ok \in BOOLEAN :
    /\ call = NoCall
    /\ call' = Answered("score", payload, Some(1),
                        calculate_wsm_score(financial_data, payload,
                                            Some(1), row_order),
                        AuditRow("ScoringResult", Some(1), commit_ok))
    /\ UNCHANGED <<financial_data, redis_store>>

ScorePreview ==
  \E payload \in PreviewRequests, row_order \in RowOrders, commit_ok \in BOOLEAN :
    /\ call = NoCall
    /\ call' = Answered("preview", payload, Some(1),
                        calculate_wsm_score_preview(financial_data, payload,
                                                    Some(1), row_order),
                        AuditRow("ScoringResult", Some(1), commit_ok))
    /\ UNCHANGED <<financial_data, redis_store>>

Scorecard ==
  \E payload \in ScorecardRequests, row_order \in RowOrders :
    /\ call = NoCall
    /\ call' = Answered("scorecard", payload, Some(1),
                        compute_scorecard(financial_data, payload,
                                          Some(1), row_order),
                        <<>>)
    /\ UNCHANGED <<financial_data, redis_store>>

Simulate ==
  \E payload \in SimulationRequests, commit_ok \in BOOLEAN :
    /\ call = NoCall
    /\ call' = Answered("simulate", payload, Some(1),
                        run_simulation(financial_data, payload, Some(1)),
                        AuditRow("SimulationLog", Some(1), commit_ok))
    /\ UNCHANGED <<financial_data, redis_store>>

\* Score asked with every kind of weight source, by any caller
ScoreWithWeights ==
  \E payload \in WeightRequests, user_id \in {None} \cup {Some(u) : u \in UserIds} :
    /\ call = NoCall
    /\ call' = Answered("score", payload, user_id,
                        calculate_wsm_score(financial_data, payload,
                                            user_id, TickerOrder),
                        AuditRow("ScoringResult", user_id, TRUE))
    /\ UNCHANGED <<financial_data, redis_store>>

\* Compare, called as the route calls it
Compare ==
  \E payload \in CompareRequests, commit_ok \in BOOLEAN :
    /\ call = NoCall
    /\ call' = Answered("compare", payload, Some(1),
                        run_compare(financial_data, payload, Some(1)),
                        AuditRow("Comparison", Some(1), commit_ok))
    /\ UNCHANGED <<financial_data, redis_store>>

\* Compare over ranges of the two years of CompareYears
CompareOverYears ==
  \E payload \in CompareRequestsOver(CompareYears), commit_ok \in BOOLEAN :
    /\ call = NoCall
    /\ call' = Answered("compare", payload, Some(1),
                        run_compare(financial_data, payload, Some(1)),
                        AuditRow("Comparison", Some(1), commit_ok))
    /\ UNCHANGED <<financial_data, redis_store>>

\* POST /api/wsm/score by user 1; either commit may fail
ScoreRoute ==
  \E payload \in ScoreRequests, row_order \in RowOrders :
    \E service_commit \in BOOLEAN, route_commit \in BOOLEAN :
      /\ call = NoCall
      /\ call' = Only({[op |-> "score_route", payload |-> payload,
                        user_id |-> Some(1), row_order |-> row_order,
                        commits |-> <<service_commit, route_commit>>,
                        result |-> r.result, persisted |-> r.persisted] :
                         r \in {wsm_score(financial_data, payload, Some(1),
                                          row_order, service_commit,
                                          route_commit)}})
      /\ UNCHANGED <<financial_data, redis_store>>

\* what the cache does during one request
CacheOutcomes ==
  [redis_up : BOOLEAN, get_outcome : {"ok", "error", "undecodable"},
   set_ok : BOOLEAN]

\* the call answered by a cached route; on success the route adds its own
\* audit row, which may fail to commit
RouteAnswered(op, payload, row_order, cache, r, rows) ==
  Only({[op |-> op, payload |-> payload, user_id |-> Some(1),
         row_order |-> row_order, cache |-> cache,
         result |-> x.result, from_cache |-> x.from_cache,
         persisted |-> IF IsOk(x.result) THEN rows ELSE <<>>] :
          x \in {r}})

\* POST /api/wsm/score-preview by user 1
ScorePreviewRoute ==
  \E payload \in PreviewRequests, row_order \in RowOrders, cache \in CacheOutcomes :
    /\ call = NoCall
    /\ \E r \in {wsm_score_preview(financial_data, redis_store, payload,
                                    Some(1), row_order, cache.redis_up,
                                    cache.get_outcome, cache.set_ok)} :
         /\ call' = RouteAnswered("preview_route", payload, row_order, cache,
                                  r, <<>>)
         /\ redis_store' = r.redis_store
    /\ UNCHANGED financial_data

\* POST /api/wsm/simulate by user 1, with a SimulationRequest
SimulateRoute ==
  \E payload \in {p \in SimulationRequests : ~HasWeightSource(p)} :
    \E cache \in CacheOutcomes, route_commit \in BOOLEAN :
      /\ call = NoCall
      /\ \E r \in {simulate(financial_data, redis_store, payload, Some(1),
                             cache.redis_up, cache.get_outcome, cache.set_ok)} :
           /\ call' = RouteAnswered("simulate_route", payload, TickerOrder,
                                    cache, r,
                                    AuditRow("SimulationLog", Some(1),
                                             route_commit))
           /\ redis_store' = r.redis_store
      /\ UNCHANGED financial_data

\* POST /api/wsm/compare by user 1
CompareRoute ==
  \E payload \in CompareRequests :
    \E cache \in CacheOutcomes, route_commit \in BOOLEAN :
      /\ call = NoCall
      /\ \E r \in {compare(financial_data, redis_store, payload, Some(1),
                            cache.redis_up, cache.get_outcome, cache.set_ok)} :
           /\ call' = RouteAnswered("compare_route", payload, TickerOrder,
                                    cache, r,
                                    AuditRow("Comparison", Some(1),
                                             route_commit))
           /\ redis_store' = r.redis_store
      /\ UNCHANGED financial_data

\* _metric_weights_from_section applied to the section weights of a
\* request, for every catalog of SectionCatalogs
SectionWeights ==
  \E mapping_entries \in SectionCatalogs, section_weights \in InlineSectionWeights :
    /\ call = NoCall
    /\ call' = [op |-> "section_weights", mapping_entries |-> mapping_entries,
                section_weights |-> section_weights,
                result |-> _metric_weights_from_section(
                             section_weights, mapping_entries,
                             DefaultWeightRaw(mapping_entries))]
    /\ UNCHANGED <<financial_data, redis_store>>

\* the coverage and the confidence that ScorePreview and Scorecard give an
\* entity with used of total_metrics catalog metrics, for catalogs of up to
\* MaxMetrics metrics
Confidence ==
  \E total_metrics \in 1..MaxMetrics :
    \E used \in 0..total_metrics :
      /\ call = NoCall
      /\ call' = [op |-> "confidence",
                  preview |->
                    [coverage |-> CoverageSummary(used, total_metrics),
                     confidence |->
                       PreviewConfidence(CoverageSummary(used, total_metrics))],
                  scorecard |->
                    [coverage |-> CoverageSummary(used, total_metrics),
                     confidence |->
                       ScorecardConfidence(Rat(used, total_metrics))]]
      /\ UNCHANGED <<financial_data, redis_store>>

\* the response is returned to the caller
Respond ==
  /\ call # NoCall
  /\ call' = NoCall
  /\ UNCHANGED <<financial_data, redis_store>>

Next ==
  \/ UpsertObservation
  \/ Score
  \/ ScoreWithWeights
  \/ ScorePreview
  \/ Scorecard
  \/ Simulate
  \/ Compare
  \/ CompareOverYears
  \/ ScoreRoute
  \/ ScorePreviewRoute
  \/ SimulateRoute
  \/ CompareRoute
  \/ SectionWeights
  \/ Confidence
  \/ Respond

Spec == Init /\ [][Next]_vars

\* the ranking operations alone
NextRanking == UpsertObservation \/ Score \/ ScorePreview \/ Scorecard \/ Respond
SpecRanking == Init /\ [][NextRanking]_vars

\* the simulation alone
NextSimulation == UpsertObservation \/ Simulate \/ Respond
SpecSimulation == Init /\ [][NextSimulation]_vars

\* the weight resolver alone, over a seeded store
InitWeights ==
  /\ financial_data = SeededData
  /\ call = NoCall
  /\ redis_store = <<>>
NextWeights == ScoreWithWeights \/ Respond
SpecWeights == InitWeights /\ [][NextWeights]_vars

\* the routes of api/routes/wsm.py, and the service functions behind the
\* cached routes called directly, over a seeded store
NextRoutes ==
  \/ ScoreRoute
  \/ ScorePreviewRoute
  \/ SimulateRoute
  \/ CompareRoute
  \/ Simulate
  \/ Compare
  \/ Respond
SpecRoutes == InitWeights /\ [][NextRoutes]_vars

\* every scoring operation, over the stores whose cells are NULL, negative,
\* zero or the largest value
ScoreStores ==
  [ObservationKeys -> {None} \cup {Some(x) : x \in {-1, 0, MaxVal}}]
InitScores ==
  /\ financial_data \in ScoreStores
  /\ call = NoCall
  /\ redis_store = <<>>
NextScores ==
  \/ Score
  \/ ScorePreview
  \/ Scorecard
  \/ Simulate
  \/ Compare
  \/ Respond
SpecScores == InitScores /\ [][NextScores]_vars

\* Compare alone, over two years of observations
InitCompare ==
  /\ financial_data \in CompareStores
  /\ call = NoCall
  /\ redis_store = <<>>
NextCompare == CompareOverYears \/ Respond
SpecCompare == InitCompare /\ [][NextCompare]_vars

\* the section weights alone, over the catalogs of SectionCatalogs
NextSections == SectionWeights \/ Respond
SpecSections == InitWeights /\ [][NextSections]_vars

\* the coverage labels alone, over catalogs of every size up to MaxMetrics
NextConfidence == Confidence \/ Respond
SpecConfidence == InitWeights /\ [][NextConfidence]_vars

(***************************************************************************)
(* Properties of Score, ScorePreview and Scorecard                          *)
(***************************************************************************)
ScoreServed == call.op = "score" /\ IsOk(call.result)
PreviewServed == call.op = "preview" /\ IsOk(call.result)
TickersOf(ranking) == [i \in DOMAIN ranking |-> ranking[i].ticker]

\* C1: Score normalizes each metric against the minimum and maximum over
\* the full universe of entities with data for the year, even when the
\* request carries a ticker filter; an entity's score is therefore the one
\* it has in the unfiltered ranking, whatever else the filter contains.
C1_BasisOverFullUniverse ==
  ScoreServed =>
    LET full == calculate_wsm_score(financial_data,
                                    [call.payload EXCEPT !.tickers = None,
                                                         !.limit = None],
                                    call.user_id, TickerOrder)
        ranking == call.result.val.ranking
    IN  /\ IsOk(full)
        /\ call.result.max_by_metric = full.max_by_metric
        /\ call.result.min_by_metric = full.min_by_metric
        /\ \A i \in DOMAIN ranking :
             \E j \in DOMAIN full.val.ranking : full.val.ranking[j] = ranking[i]

\* C2: for every weight source that Score accepts without error, the
\* resolved per-metric weight map is non-negative and sums to exactly 1.
C2_WeightsNonNegativeSumToOne ==
  ScoreServed =>
    LET weights == call.result.normalized_weights
    IN  /\ \A m \in DOMAIN weights : RLe(Zero, weights[m])
        /\ RSum(weights, DOMAIN weights) = One

\* C3: under missing policy "drop", an entity is in the dropped list if and
\* only if at least one requested metric is null for it (the entity whose
\* requested metrics are all null included), and no dropped entity is ranked.
C3_DroppedIffAnyRequestedMetricNull ==
  ScoreServed /\ call.payload.missing_policy = "drop" =>
    LET requested == DOMAIN call.result.normalized_weights
        year == call.payload.year
        requestable == IF call.payload.tickers = None THEN Tickers
                       ELSE Tickers \cap Get(call.payload.tickers)
        \* the entities that have an observation for the year
        universe == {t \in requestable :
                       \E m \in CatalogNames : financial_data[t, m, year] # None}
        dropped == {call.result.val.dropped_tickers[i].ticker :
                      i \in DOMAIN call.result.val.dropped_tickers}
        ranked == Range(TickersOf(call.result.val.ranking))
    IN  /\ \A t \in universe :
             t \in dropped <=>
               \E m \in requested : financial_data[t, m, year] = None
        /\ dropped \cap ranked = {}

\* C4: Score, ScorePreview and Scorecard order the entities by one key:
\* total score descending, coverage descending, balance, income and cash
\* flow subtotals descending, ticker ascending. The ranking of a Score or
\* ScorePreview response over the catalog weights is the order Scorecard
\* ranks the same entities in.
C4_OneSortKey ==
  (ScoreServed \/ PreviewServed)
  /\ call.payload.metrics = None /\ call.payload.tickers = None
  /\ call.payload.limit = None /\ call.result.val.ranking # <<>> =>
    LET scorecard ==
          compute_scorecard(financial_data,
                            [year |-> call.payload.year,
                             ticker |-> call.result.val.ranking[1].ticker,
                             missing_policy |-> call.payload.missing_policy,
                             weight_template_id |-> call.payload.weight_template_id,
                             weight_scope |-> call.payload.weight_scope,
                             weights_json |-> call.payload.weights_json],
                            call.user_id, TickerOrder)
    IN  /\ IsOk(scorecard)
        /\ TickersOf(call.result.val.ranking) = scorecard.ranking_data

\* C5: Score is idempotent: the same request over the same observations
\* gives the same response, whatever order the store returns the rows in.
C5_ScoreIdempotent ==
  call.op = "score" =>
    \A row_order \in RowOrders :
      LET again == calculate_wsm_score(financial_data, call.payload,
                                       call.user_id, row_order)
      IN  /\ again.err = call.result.err
          /\ IsOk(again) => again.val = call.result.val

(***************************************************************************)
(* Properties of Simulate                                                   *)
(***************************************************************************)
SimulateScored ==
  /\ call.op = "simulate" /\ IsOk(call.result)
  /\ "baseline_basis" \in DOMAIN call.result

\* C6: the min/max basis a Simulate call normalizes against is identical
\* for the baseline pass and the simulated pass, for every override list.
C6_SimulatedBasisIsBaselineBasis ==
  SimulateScored => call.result.simulated_basis = call.result.baseline_basis

\* witness of C6: an override lifts the entity's benefit value above the
\* maximum of the baseline basis, and both passes gave a score
C6_OverrideAboveBaselineMax ==
  /\ SimulateScored
  /\ call.result.val.baseline_score # None
  /\ call.result.val.simulated_score # None
  /\ call.result.overrides_dict # None
  /\ "Metric A" \in DOMAIN Get(call.result.overrides_dict)
  /\ RLt(Get(call.result.baseline_basis).max_by_metric["Metric A"],
         Get(call.result.overrides_dict)["Metric A"])

ZeroDeltas(overrides) ==
  \A i \in DOMAIN overrides : overrides[i].value = 0

\* C7: a Simulate call whose overrides all have a percentage of 0 returns
\* simulated_score equal to baseline_score, for every entity, year, scope
\* and missing policy, also for a cost metric with a negative raw value and
\* for a metric the entity has no value for: the call does not fail on the
\* request object, and the two scores of its response are equal.
C7_ZeroDeltaKeepsBaseline ==
  call.op = "simulate" /\ ZeroDeltas(call.payload.overrides) =>
    /\ call.result.err # "AttributeError"
    /\ IsOk(call.result)
         => call.result.val.simulated_score = call.result.val.baseline_score

AttainsExtreme(t, m) ==
  LET value == call.result.ticker_metric_values[t][m]
  IN  IF call.result.metric_type[m] = "benefit"
      THEN value = call.result.max_by_metric[m]
      ELSE value = call.result.min_by_metric[m]
ExtremeOf(m) ==
  IF call.result.metric_type[m] = "benefit"
  THEN call.result.max_by_metric[m] ELSE call.result.min_by_metric[m]

\* C9 (as stated): in Score, the entity attaining the maximum raw value of
\* a benefit metric, and the entity attaining the minimum raw value of a
\* cost metric, receives the normalized value 1.0 for that metric.
C9_ExtremeIsOne ==
  ScoreServed =>
    \A t \in DOMAIN call.result.normalized :
      \A m \in DOMAIN call.result.normalized[t] :
        AttainsExtreme(t, m) => call.result.normalized[t][m] = One

\* C9 (amended): in Score, the entity attaining the maximum of a benefit
\* metric, or the minimum of a cost metric (over the values with a negative
\* cost value replaced by its absolute value), receives the normalized
\* value 1.0 provided that extreme is not 0; when the extreme is 0 the
\* normalized value is 0.
C9_ExtremeIsOneUnlessZero ==
  ScoreServed =>
    \A t \in DOMAIN call.result.normalized :
      \A m \in DOMAIN call.result.normalized[t] :
        AttainsExtreme(t, m) =>
          call.result.normalized[t][m] =
            (IF ExtremeOf(m) = Zero THEN Zero ELSE One)

\* witness of C9: a Score response in which one entity attains a non-zero
\* maximum of a benefit metric and one attains a non-zero minimum of a cost
\* metric, each against a second entity with another value
C9_ExtremesAttained ==
  /\ ScoreServed
  /\ \A type \in {"benefit", "cost"} :
       \E m \in DOMAIN call.result.metric_type :
         /\ call.result.metric_type[m] = type
         /\ m \in DOMAIN call.result.max_by_metric
         /\ call.result.max_by_metric[m] # call.result.min_by_metric[m]
         /\ ExtremeOf(m) # Zero
         /\ \E t \in DOMAIN call.result.normalized :
              m \in DOMAIN call.result.normalized[t] /\ AttainsExtreme(t, m)

\* C10: a ScorePreview with limit k returns exactly the first k entries of
\* the ranking ScorePreview returns for the same request without a limit.
C10_LimitIsPrefix ==
  PreviewServed /\ call.payload.limit # None =>
    \A row_order \in RowOrders :
      LET unlimited ==
            calculate_wsm_score_preview(financial_data,
                                        [call.payload EXCEPT !.limit = None],
                                        call.user_id, row_order)
      IN  /\ IsOk(unlimited)
          /\ call.result.val.ranking =
               Take(unlimited.val.ranking, Get(call.payload.limit))

(***************************************************************************)
(* Properties of coverage, eligibility and the missing policies             *)
(***************************************************************************)
\* the metrics a scoring request asks for: those of its resolved weight map
RequestedMetrics(payload, user_id) ==
  DOMAIN calculate_wsm_score(financial_data, [payload EXCEPT !.limit = None],
                             user_id, TickerOrder).normalized_weights

\* C11: the coverage ScorePreview reports for an entity is the number of
\* requested metrics with a non-null value for that entity over the number
\* of requested metrics, for every weight source, the explicit metric list
\* that names only part of the catalog included.
C11_CoverageOverRequestedMetrics ==
  PreviewServed =>
    LET requested == RequestedMetrics(call.payload, call.user_id)
        ranking == call.result.val.ranking
    IN  \A i \in DOMAIN ranking :
          LET used == Cardinality({m \in requested :
                                     financial_data[ranking[i].ticker, m,
                                                    call.payload.year] # None})
          IN  /\ ranking[i].coverage.used = used
              /\ ranking[i].coverage.total = Cardinality(requested)
              /\ ranking[i].coverage.pct =
                   Round6(Rat(used, Cardinality(requested)))

\* the catalog metrics an entity has no value for in a year
MissingMetrics(ticker, year) ==
  {m \in CatalogNames : financial_data[ticker, m, year] = None}

\* C12: Scorecard for a target entity that has observations that year but
\* misses at least one requested metric fails, under the drop policy, with
\* the Unprocessable error naming the missing metrics, never with NotFound,
\* whatever the eligibility of the other entities.
C12_IneligibleTargetIsUnprocessable ==
  /\ call.op = "scorecard" /\ call.payload.missing_policy = "drop"
  /\ MissingMetrics(call.payload.ticker, call.payload.year) # {}
  /\ MissingMetrics(call.payload.ticker, call.payload.year) # CatalogNames
  =>
    /\ call.result.err = "Unprocessable"
    /\ call.result.missing_metrics =
         MissingMetrics(call.payload.ticker, call.payload.year)

\* the Score request with the inputs of a Scorecard request: the same year,
\* weight source and missing policy, no filter, no limit
ScoreOfScorecard(payload) ==
  WSMScoreRequest(payload.year, None, payload.weight_template_id,
                  payload.weight_scope, payload.weights_json, None, None,
                  payload.missing_policy)

UnderPolicy(payload, missing_policy) ==
  [payload EXCEPT !.missing_policy = missing_policy]

\* the total weight of the metrics an entity has a value for, in a served
\* Score response r
AvailableWeight(r, t) ==
  RSum([m \in DOMAIN r.ticker_metric_values[t] |-> r.normalized_weights[m]],
       DOMAIN r.ticker_metric_values[t])

\* C14 (as stated): under the redistribute policy, an entity whose available metrics
\* have a total weight <= 0 is absent from the ranking and from the dropped
\* list and causes no error: the request is served whenever it is served
\* under the zero policy. Every entity whose available metrics have a
\* positive total weight is scored with that total as the divisor.
C14_RedistributeExcludesSilently ==
  call.op = "score" /\ call.payload.missing_policy = "redistribute" =>
    LET zero == calculate_wsm_score(financial_data,
                                    UnderPolicy(call.payload, "zero"),
                                    call.user_id, TickerOrder)
        positive == {t \in DOMAIN zero.ticker_metric_values :
                       RLt(Zero, AvailableWeight(zero, t))}
        ranking == call.result.val.ranking
    IN  IsOk(zero) =>
          /\ IsOk(call.result)
          /\ call.result.val.dropped_tickers = <<>>
          /\ Range(TickersOf(ranking)) \subseteq positive
          /\ call.payload.limit = None => Range(TickersOf(ranking)) = positive
          /\ \A i \in DOMAIN ranking :
               ranking[i].score =
                 Round6(RSum([m \in DOMAIN zero.normalized[ranking[i].ticker] |->
                                RMul(RDiv(zero.normalized_weights[m],
                                          AvailableWeight(zero, ranking[i].ticker)),
                                     zero.normalized[ranking[i].ticker][m])],
                             DOMAIN zero.normalized[ranking[i].ticker]))

\* C14 (amended): under the redistribute policy, an entity whose available
\* metrics have a total weight <= 0 is absent from the ranking and from the
\* dropped list; the request fails with NotFound when that leaves no entity
\* to rank and is served otherwise. Every entity whose available metrics
\* have a positive total weight is scored with that total as the divisor.
C14_RedistributeExcludesOrNotFound ==
  call.op = "score" /\ call.payload.missing_policy = "redistribute" =>
    LET zero == calculate_wsm_score(financial_data,
                                    UnderPolicy(call.payload, "zero"),
                                    call.user_id, TickerOrder)
        positive == {t \in DOMAIN zero.ticker_metric_values :
                       RLt(Zero, AvailableWeight(zero, t))}
        ranking == call.result.val.ranking
    IN  IsOk(zero) =>
          /\ call.result.err = (IF positive = {} THEN "NotFound" ELSE "")
          /\ IsOk(call.result) =>
               /\ call.result.val.dropped_tickers = <<>>
               /\ Range(TickersOf(ranking)) \subseteq positive
               /\ call.payload.limit = None
                    => Range(TickersOf(ranking)) = positive
               /\ \A i \in DOMAIN ranking :
                    LET t == ranking[i].ticker IN
                    ranking[i].score =
                      Round6(RSum([m \in DOMAIN zero.normalized[t] |->
                                     RMul(RDiv(zero.normalized_weights[m],
                                               AvailableWeight(zero, t)),
                                          zero.normalized[t][m])],
                                  DOMAIN zero.normalized[t]))

\* witness of C14: a Score served under redistribute in which one entity
\* with data is left out for a total weight of 0 and another is ranked with
\* a positive score
C14_OneExcludedOneRanked ==
  /\ ScoreServed /\ call.payload.missing_policy = "redistribute"
  /\ call.payload.tickers = None /\ call.payload.limit = None
  /\ Len(call.result.val.ranking) = 1
  /\ call.result.val.ranking[1].score > 0
  /\ \E t \in DOMAIN call.result.ticker_metric_values :
       /\ t # call.result.val.ranking[1].ticker
       /\ AvailableWeight(call.result, t) = Zero

\* C15: under the zero policy every entity with a value is ranked, and its
\* score is the sum over its available metrics of weight_map[metric] times
\* the normalized value, with divisor 1 (rounded to 6 decimals): a missing
\* metric contributes 0 and its weight is not given to the other metrics.
C15_ZeroPolicyKeepsWeights ==
  ScoreServed /\ call.payload.missing_policy = "zero" =>
    LET ranking == call.result.val.ranking
        normalized == call.result.normalized
        weight_map == call.result.normalized_weights
    IN  /\ call.payload.limit = None
             => Range(TickersOf(ranking)) = DOMAIN normalized
        /\ call.result.val.dropped_tickers = <<>>
        /\ \A i \in DOMAIN ranking :
             LET t == ranking[i].ticker IN
             ranking[i].score =
               Round6(RSum([m \in DOMAIN normalized[t] |->
                              RMul(weight_map[m], normalized[t][m])],
                           DOMAIN normalized[t]))

\* witness of C15: a Score served under zero ranks an entity that misses a
\* metric of positive weight and has a positive normalized value for another
C15_MissingWeightedMetric ==
  /\ ScoreServed /\ call.payload.missing_policy = "zero"
  /\ \E i \in DOMAIN call.result.val.ranking :
       LET t == call.result.val.ranking[i].ticker IN
       /\ call.result.val.ranking[i].score > 0
       /\ call.result.val.ranking[i].score < 1000000
       /\ \E m \in DOMAIN call.result.normalized_weights :
            /\ m \notin DOMAIN call.result.normalized[t]
            /\ RLt(Zero, call.result.normalized_weights[m])
       /\ \E m \in DOMAIN call.result.normalized[t] :
            call.result.normalized[t][m] = One

(***************************************************************************)
(* Properties of the weight resolver                                        *)
(***************************************************************************)
\* a Score call whose weight source is an inline map of the given scope
InlineWeights(scope) ==
  /\ call.op = "score"
  /\ call.payload.weight_template_id = None /\ call.payload.metrics = None
  /\ call.payload.weight_scope = Some(scope)
  /\ call.payload.weights_json # None

\* C16: a weight source whose keys are not all known is rejected with
\* InvalidInput: metric-scope input when a key is not a catalog metric,
\* section-scope input when a key does not canonicalize to a known section
\* (balance, income, cash_flow); catalog metrics absent from an accepted
\* metric-scope input get weight 0.
C16_UnknownKeysRejected ==
  /\ InlineWeights("metric") =>
       LET keys == DOMAIN Get(call.payload.weights_json) IN
       /\ keys \ CatalogNames # {} => call.result.err = "InvalidInput"
       /\ IsOk(call.result) =>
            \A m \in CatalogNames \ keys :
              call.result.normalized_weights[m] = Zero
  /\ InlineWeights("section") =>
       LET keys == DOMAIN Get(call.payload.weights_json) IN
       (\E k \in keys : _normalize_section_key(k) \notin Range(Sections))
         => call.result.err = "InvalidInput"

\* a Score call that names a weight template, made by an acting identity
TemplateRequested ==
  /\ call.op = "score" /\ call.payload.weight_template_id # None
  /\ call.user_id # None

\* the requested template is in the table and belongs to the caller
TemplateOwned ==
  /\ Get(call.payload.weight_template_id) \in DOMAIN weight_templates
  /\ weight_templates[Get(call.payload.weight_template_id)].owner_user_id
       = Get(call.user_id)

\* the weight map that the requested template resolves to
TemplateWeights ==
  LET template == weight_templates[Get(call.payload.weight_template_id)]
  IN  _resolve_metric_weight_map(Some(template.scope),
                                 Some(template.weights_json),
                                 _prepare_mapping_defaults.val).val

RawWeightTotal(payload) ==
  IF payload.metrics # None
  THEN RSumSeq([i \in DOMAIN Get(payload.metrics) |->
                  Get(payload.metrics)[i].weight])
  ELSE RSum(Get(payload.weights_json), DOMAIN Get(payload.weights_json))

\* the total that inline section weights leave on the sections that hold a
\* catalog metric
SectionResultTotal(section_weights) ==
  LET canonical == CanonicalSections(section_weights)
      held == {_normalize_section_key(Entry(m).section) : m \in CatalogNames}
  IN  RSum(canonical, DOMAIN canonical \cap held)

\* C18: whenever a weight map sums to <= 0 at a stage of the resolution
\* (the raw metric list, the raw metric or section input, the per-section
\* result, the resolved map), the request fails with InvalidInput and no
\* score is returned.
C18_NonPositiveWeightsRejected ==
  call.op = "score" /\ call.payload.weight_template_id = None =>
    /\ (call.payload.metrics # None \/ call.payload.weights_json # None)
       /\ RLe(RawWeightTotal(call.payload), Zero)
         => call.result.err = "InvalidInput"
    /\ InlineWeights("section")
       /\ RLe(SectionResultTotal(Get(call.payload.weights_json)), Zero)
         => call.result.err = "InvalidInput"
    /\ IsOk(call.result) =>
         RLt(Zero, RSum(call.result.normalized_weights,
                        DOMAIN call.result.normalized_weights))

(***************************************************************************)
(* Properties of the overrides and of the delta of Simulate                 *)
(***************************************************************************)
\* the metrics of the active scope of a Simulate request
ScopeMetrics(payload) ==
  IF payload.mode = "section"
  THEN {m \in CatalogNames :
          _normalize_section_key(Entry(m).section)
            = _normalize_section_key(Get(payload.section))}
  ELSE CatalogNames

\* a sequence without its i-th element
Without(s, i) == [j \in 1..(Len(s) - 1) |-> IF j < i THEN s[j] ELSE s[j + 1]]

\* the indices of the overrides of the call whose metric is out of scope
OutOfScope ==
  {i \in DOMAIN call.payload.overrides :
     call.payload.overrides[i].metric_name \notin ScopeMetrics(call.payload)}

C20_DeltaIsScoreDifference ==
  call.op = "simulate" /\ IsOk(call.result) =>
    LET response == call.result.val
    IN  /\ (response.simulated_score = None) <=> (response.baseline_score = None)
        /\ (response.delta = None) <=> (response.baseline_score = None)
        /\ response.baseline_score # None =>
             /\ response.delta # None
             /\ Get(response.delta)
                  = Get(response.simulated_score) - Get(response.baseline_score)

\* a simulation with an applied override that moves the score
C20_OverrideMovesScore ==
  /\ SimulateScored
  /\ call.result.overrides_dict # None
  /\ call.result.val.delta # None
  /\ Get(call.result.val.delta) # 0


(***************************************************************************)
(* Properties of the confidence label                                       *)
(***************************************************************************)
\* the label the thresholds give a coverage fraction, in millionths
LabelOf(pct) ==
  IF pct >= 900000 THEN "High" ELSE IF pct >= 750000 THEN "Medium" ELSE "Low"

\* C21: the confidence label of an entity in ScorePreview and in Scorecard
\* is a function of its coverage fraction alone: High when coverage >= 0.90,
\* Medium when 0.75 <= coverage < 0.90, Low otherwise.
C21_ConfidenceFromCoverage ==
  /\ call.op = "confidence" =>
       /\ call.preview.confidence = LabelOf(call.preview.coverage.pct)
       /\ call.scorecard.confidence = LabelOf(call.scorecard.coverage.pct)
  /\ PreviewServed =>
       \A i \in DOMAIN call.result.val.ranking :
         call.result.val.ranking[i].confidence
           = LabelOf(call.result.val.ranking[i].coverage.pct)
  /\ call.op = "scorecard" /\ IsOk(call.result) =>
       call.result.val.confidence = LabelOf(call.result.val.coverage.pct)

\* an entity with exactly nine tenths of the catalog
C21_CoverageAtNineTenths ==
  /\ call.op = "confidence"
  /\ call.preview.coverage.used * 10 = call.preview.coverage.total * 9
  /\ call.preview.confidence = "High"
  /\ call.scorecard.confidence = "High"


(***************************************************************************)
(* Properties of the disabled metrics and of the weight sources             *)
(***************************************************************************)
\* the explicit list of the request names a disabled metric
ListsDisabledMetric(payload) ==
  /\ payload.metrics # None
  /\ \E i \in DOMAIN Get(payload.metrics) :
       Get(payload.metrics)[i].metric_name \in DISABLED_METRICS

\* the catalog holds no disabled metric and no empty name, and what a served
\* Score has scored holds no disabled metric
NoDisabledMetricScored ==
  /\ \A i \in DOMAIN load_metric_mapping_list :
       /\ load_metric_mapping_list[i].metric_name \notin DISABLED_METRICS
       /\ load_metric_mapping_list[i].metric_name # ""
  /\ ScoreServed =>
       /\ DOMAIN call.result.normalized_weights \cap DISABLED_METRICS = {}
       /\ \A t \in DOMAIN call.result.ticker_metric_values :
            DOMAIN call.result.ticker_metric_values[t] \cap DISABLED_METRICS = {}

\* C22 (as stated): no disabled metric is ever scored: the catalog resolver
\* never returns a disabled metric (nor an entry with an empty name), and
\* Score given an explicit metric list that contains a disabled metric fails
\* with InvalidInput and returns no ranking.
C22_DisabledListRejected ==
  /\ NoDisabledMetricScored
  /\ call.op = "score" /\ ListsDisabledMetric(call.payload) =>
       call.result.err = "InvalidInput"

\* C22 (amended): no disabled metric is ever scored: the catalog resolver
\* never returns a disabled metric (nor an entry with an empty name), and
\* Score given an explicit metric list that contains a disabled metric, and
\* no template id, fails with InvalidInput and returns no ranking; with a
\* template id the list is not read, and the template decides the outcome.
C22_DisabledListRejectedUnlessTemplate ==
  /\ NoDisabledMetricScored
  /\ call.op = "score" /\ ListsDisabledMetric(call.payload) =>
       IF call.payload.weight_template_id = None
       THEN call.result.err = "InvalidInput"
       ELSE call.result.err
              = calculate_wsm_score(financial_data,
                                    [call.payload EXCEPT !.metrics = None],
                                    call.user_id, TickerOrder).err

\* a list of an enabled and a disabled metric, without a template id
C22_DisabledMetricListed ==
  /\ call.op = "score"
  /\ ListsDisabledMetric(call.payload)
  /\ Len(Get(call.payload.metrics)) = 2
  /\ call.payload.weight_template_id = None
  /\ call.result.err = "InvalidInput"


(***************************************************************************)
(* Properties of the audit records and of the response cache                *)
(***************************************************************************)
\* C23: if persisting an audit or history record (ScoringResult, ScoringRun,
\* SimulationLog, Comparison) fails after a scoring computation succeeded,
\* the operation still returns the response it returns when persistence
\* succeeds, and no error reaches the caller.
C23_AuditFailureKeepsResponse ==
  /\ call.op = "score_route" =>
       call.result = wsm_score(financial_data, call.payload, call.user_id,
                               call.row_order, TRUE, TRUE).result
  /\ call.op = "simulate" =>
       call.result = run_simulation(financial_data, call.payload, call.user_id)
  /\ call.op = "compare" =>
       call.result = run_compare(financial_data, call.payload, call.user_id)

\* a ranking returned although neither transaction was committed
C23_RankingWithoutAudit ==
  /\ call.op = "score_route"
  /\ call.commits = <<FALSE, FALSE>>
  /\ call.persisted = <<>>
  /\ IsOk(call.result)
  /\ call.result.val.ranking # <<>>


\* the cache fails during the call: no client, an error on get, an
\* undecodable value, or an error on set
CacheFails ==
  \/ ~call.cache.redis_up
  \/ call.cache.get_outcome # "ok"
  \/ ~call.cache.set_ok

\* C24: any failure of the response cache (client unavailable, error on get
\* or set, undecodable cached value) is treated as a cache miss: the request
\* is computed normally and the failure is never surfaced to the caller.
C24_CacheFailureIsMiss ==
  /\ call.op = "preview_route" /\ CacheFails =>
       call.result = calculate_wsm_score_preview(financial_data, call.payload,
                                                 call.user_id, call.row_order)
  /\ call.op = "compare_route" /\ CacheFails =>
       call.result = run_compare(financial_data, call.payload, call.user_id)

\* C25: for ScorePreview, Simulate and Compare, a response served from the
\* cache equals the response a fresh computation of the same request returns
\* at that moment.
C25_CachedIsFresh ==
  /\ call.op = "preview_route" /\ call.from_cache =>
       call.result.val
         = calculate_wsm_score_preview(financial_data, call.payload,
                                       call.user_id, call.row_order).val
  /\ call.op = "simulate_route" /\ call.from_cache =>
       call.result.val
         = run_simulation(financial_data, call.payload, call.user_id).val
  /\ call.op = "compare_route" /\ call.from_cache =>
       call.result.val
         = run_compare(financial_data, call.payload, call.user_id).val

\* a response served from the cache
C25_ServedFromCache ==
  /\ call.op \in {"preview_route", "simulate_route", "compare_route"}
  /\ call.from_cache


(***************************************************************************)
(* Properties of the section-scope weights                                  *)
(***************************************************************************)
\* the canonical section of a metric of the call's catalog
SectionOfMetric(m) ==
  _normalize_section_key(EntryOf(call.mapping_entries, m).section)

\* (the requested weight of the metric's section / the sum of all requested
\* section weights) * (the metric's default weight / the total default
\* weight of its section)
SectionProduct(m) ==
  LET requested == CanonicalSections(call.section_weights)
      raw == DefaultWeightRaw(call.mapping_entries)
      peers == {n \in DOMAIN raw : SectionOfMetric(n) = SectionOfMetric(m)}
  IN  RMul(RDiv(GetOr0(requested, SectionOfMetric(m)),
                RSum(requested, DOMAIN requested)),
           RDiv(raw[m], RSum(raw, peers)))

SectionWeightsAccepted == call.op = "section_weights" /\ IsOk(call.result)

GivesTemplate(payload) == payload.weight_template_id # None
GivesList(payload) == payload.metrics # None /\ Get(payload.metrics) # <<>>
GivesInline(payload) ==
  payload.weight_scope # None /\ payload.weights_json # None

\* the result of the call's request with some of its fields replaced
ScoreOf(payload) ==
  calculate_wsm_score(financial_data, payload, call.user_id, TickerOrder)

\* C27: exactly one weight source resolves per Score request, by the
\* precedence template > explicit metric list > inline scoped weights >
\* catalog defaults: with a template id the explicit list and the inline
\* weights are ignored, with a non-empty explicit list (and no template) the
\* inline weights are ignored, and the catalog defaults are used only when
\* none of the three is given.
C27_OneSourceByPrecedence ==
  call.op = "score" =>
    LET payload == call.payload
        defaults == _prepare_mapping_defaults.val
    IN  /\ GivesTemplate(payload) =>
             /\ call.result
                  = ScoreOf([payload EXCEPT !.metrics = None,
                                            !.weight_scope = None,
                                            !.weights_json = None])
             /\ IsOk(call.result) =>
                  call.result.normalized_weights = TemplateWeights
        /\ ~GivesTemplate(payload) /\ GivesList(payload) =>
             /\ call.result
                  = ScoreOf([payload EXCEPT !.weight_scope = None,
                                            !.weights_json = None])
             /\ IsOk(call.result) =>
                  call.result.normalized_weights
                    = _normalize_weights(Get(payload.metrics)).val
        /\ ~GivesTemplate(payload) /\ ~GivesList(payload) /\ GivesInline(payload) =>
             /\ call.result = ScoreOf([payload EXCEPT !.metrics = None])
             /\ IsOk(call.result) =>
                  call.result.normalized_weights
                    = _resolve_metric_weight_map(payload.weight_scope,
                                                 payload.weights_json,
                                                 defaults).val
        /\ ~GivesTemplate(payload) /\ ~GivesList(payload) /\ ~GivesInline(payload) =>
             /\ IsOk(call.result)
             /\ call.result.normalized_weights
                  = defaults.normalized_default_weights

\* a request that gives a template, an explicit list and inline weights,
\* served under the template's weights
C27_AllThreeSourcesGiven ==
  /\ call.op = "score"
  /\ GivesTemplate(call.payload)
  /\ GivesList(call.payload)
  /\ GivesInline(call.payload)
  /\ IsOk(call.result)
  /\ call.result.normalized_weights
       # _normalize_weights(Get(call.payload.metrics)).val


(***************************************************************************)
(* Properties of the range of the scores                                    *)
(***************************************************************************)
\* a rounded score (in millionths), and a normalized value, within [0, 1]
ScoreInUnit(score) == 0 <= score /\ score <= 1000000
ValueInUnit(r) == RLe(Zero, r) /\ RLe(r, One)
SlotInUnit(slot) == slot # None => ScoreInUnit(Get(slot))

\* C28: every score returned by Score, ScorePreview, Scorecard, Simulate
\* (baseline and simulated) and Compare lies in [0, 1], and every per-metric
\* normalized value lies in [0, 1], whatever the weight source, the missing
\* policy and the raw or overridden values, negative and zero included.
C28_ScoresInUnitInterval ==
  /\ call.op \in {"score", "preview", "scorecard", "simulate", "compare"}
  /\ IsOk(call.result)
  =>
  LET r == call.result IN
  CASE call.op = "score" ->
         /\ \A i \in DOMAIN r.val.ranking : ScoreInUnit(r.val.ranking[i].score)
         /\ \A t \in DOMAIN r.normalized :
              \A m \in DOMAIN r.normalized[t] : ValueInUnit(r.normalized[t][m])
    [] call.op = "preview" ->
         \A i \in DOMAIN r.val.ranking : ScoreInUnit(r.val.ranking[i].score)
    [] call.op = "scorecard" ->
         /\ ScoreInUnit(r.val.total_score)
         /\ \A i \in DOMAIN r.val.metrics :
              ValueInUnit(r.val.metrics[i].normalized_value)
    [] call.op = "simulate" ->
         /\ SlotInUnit(r.val.baseline_score)
         /\ SlotInUnit(r.val.simulated_score)
    [] call.op = "compare" ->
         \A k \in DOMAIN r.val.series :
           \A i \in DOMAIN r.val.series[k].scores :
             SlotInUnit(r.val.series[k].scores[i])

\* a simulation whose override lifts a benefit metric above the maximum
\* of the year, for an entity whose stored value is negative
C28_OverrideAboveMaxOfNegative ==
  /\ call.op = "simulate"
  /\ IsOk(call.result)
  /\ call.result.val.baseline_score # None
  /\ call.result.val.simulated_score # None
  /\ call.result.overrides_dict # None
  /\ call.result.simulated_basis # None
  /\ \E m \in DOMAIN Get(call.result.overrides_dict) :
       /\ Entry(m).type = "benefit"
       /\ financial_data[call.payload.ticker, m, call.payload.year] # None
       /\ Get(financial_data[call.payload.ticker, m, call.payload.year]) < 0
       /\ m \in DOMAIN Get(call.result.simulated_basis).max_by_metric
       /\ RLt(Get(call.result.simulated_basis).max_by_metric[m],
              Get(call.result.overrides_dict)[m])


(***************************************************************************)
(* Properties relating the missing policies of Score                        *)
(***************************************************************************)
\* the call's request, without a limit, answered under another policy over
\* the same store for the same caller
ScoreUnderPolicy(missing_policy) ==
  calculate_wsm_score(financial_data,
                      [UnderPolicy(call.payload, missing_policy)
                         EXCEPT !.limit = None],
                      call.user_id, TickerOrder)

\* the score of every ranked entity of a served Score response
ScoreByTicker(r) ==
  [t \in {r.val.ranking[i].ticker : i \in DOMAIN r.val.ranking} |->
     (CHOOSE x \in Range(r.val.ranking) : x.ticker = t).score]

\* the entities of a served Score response that have a value for every
\* requested metric
CompleteEntities(r) ==
  {t \in DOMAIN r.ticker_metric_values :
     DOMAIN r.ticker_metric_values[t] = DOMAIN r.metric_type}

\* the three answers agree on the complete entities of the zero answer
PoliciesAgree(zero, redistribute, drop) ==
  \A t \in CompleteEntities(zero) :
    /\ IsOk(redistribute) /\ IsOk(drop)
    /\ t \in DOMAIN ScoreByTicker(zero)
    /\ t \in DOMAIN ScoreByTicker(redistribute)
    /\ t \in DOMAIN ScoreByTicker(drop)
    /\ ScoreByTicker(zero)[t] = ScoreByTicker(redistribute)[t]
    /\ ScoreByTicker(zero)[t] = ScoreByTicker(drop)[t]

\* no entity ranked under both scores lower under redistribute than under zero
RedistributeNotLower(zero, redistribute) ==
  IsOk(redistribute) =>
    \A t \in DOMAIN ScoreByTicker(zero) \cap DOMAIN ScoreByTicker(redistribute) :
      ScoreByTicker(redistribute)[t] >= ScoreByTicker(zero)[t]

\* C29: for a fixed universe, year and weight map, an entity that has a
\* value for every requested metric gets the same score under zero,
\* redistribute and drop, and every entity ranked under both zero and
\* redistribute scores at least as high under redistribute.
C29_PoliciesAgreeOnCompleteEntities ==
  call.op = "score" =>
    \A zero \in {ScoreUnderPolicy("zero")} :
      IsOk(zero) =>
        \A redistribute \in {ScoreUnderPolicy("redistribute")},
           drop \in {ScoreUnderPolicy("drop")} :
          /\ PoliciesAgree(zero, redistribute, drop)
          /\ RedistributeNotLower(zero, redistribute)


(***************************************************************************)
(* Properties of the series of Compare                                      *)
(***************************************************************************)
CompareServed == call.op = "compare" /\ IsOk(call.result)

\* the years of the range whose slot is null in a series, in year order
NullYears(years, series) ==
  SelectSeq(years,
            LAMBDA y : \E i \in DOMAIN years :
                         years[i] = y /\ series.scores[i] = None)

\* the entity has no value, in that year, for some metric of the scope
Incomplete(ticker, year) ==
  \E m \in ScopeMetrics(call.payload) :
    \/ <<ticker, m, year>> \notin DOMAIN financial_data
    \/ financial_data[ticker, m, year] = None

\* every series has one slot per year of the range, missing_years lists
\* the years of its null slots, and under the drop policy the dropped list
\* names the tickers that are incomplete in some year, all of whose slots
\* are null
SeriesWellFormed ==
  LET r == call.result.val
      years == YearList(call.payload.year_from, call.payload.year_to)
  IN  /\ r.years = years
      /\ \A k \in DOMAIN r.series :
           /\ Len(r.series[k].scores) = Len(years)
           /\ r.series[k].missing_years = NullYears(years, r.series[k])
      /\ call.payload.missing_policy = "drop" =>
           \A k \in DOMAIN r.series :
             LET unavailable ==
                   \E i \in DOMAIN years : Incomplete(r.series[k].ticker, years[i])
             IN  /\ r.series[k].ticker \in Range(r.dropped_tickers)
                   <=> unavailable
                 /\ unavailable =>
                      \A i \in DOMAIN years : r.series[k].scores[i] = None
      /\ call.payload.missing_policy # "drop" => r.dropped_tickers = <<>>

\* C30 (as stated): in every Compare response each requested entity has
\* exactly one series, with one score slot per year of the range in year
\* order; missing_years is exactly the years whose slot is null; under the
\* drop policy an entity is in the dropped list if and only if its score is
\* unavailable for at least one year of the range, and then all its slots
\* are null.
C30_OneSeriesPerEntity ==
  CompareServed =>
    /\ \A t \in Range(call.payload.tickers) :
         Cardinality({k \in DOMAIN call.result.val.series :
                        call.result.val.series[k].ticker = t}) = 1
    /\ SeriesWellFormed

\* C30 (amended): in every Compare response each item of the requested
\* ticker list has exactly one series, in list order, so that an entity
\* listed twice has two series; every series has one score slot per year
\* of the range in year order; missing_years is exactly the years whose slot
\* is null; under the drop policy an entity is in the dropped list (once per
\* item that lists it) if and only if its score is unavailable for at least
\* one year of the range, and then all its slots are null.
C30_OneSeriesPerListItem ==
  CompareServed =>
    /\ Len(call.result.val.series) = Len(call.payload.tickers)
    /\ \A k \in DOMAIN call.payload.tickers :
         call.result.val.series[k].ticker = call.payload.tickers[k]
    /\ Len(call.result.val.dropped_tickers)
         = Cardinality({k \in DOMAIN call.payload.tickers :
                          call.payload.tickers[k]
                            \in Range(call.result.val.dropped_tickers)})
    /\ SeriesWellFormed

\* a comparison over two years under the drop policy, of an entity that is
\* complete in both years with one that is complete in one year only
C30_DroppedForOneYear ==
  /\ CompareServed
  /\ call.payload.missing_policy = "drop"
  /\ call.payload.year_from < call.payload.year_to
  /\ Len(call.result.val.series) = 2
  /\ call.result.val.dropped_tickers = <<"OTHER">>
  /\ \A i \in 1..2 : call.result.val.series[1].scores[i] # None
  /\ ~Incomplete("OTHER", call.payload.year_to)

=============================================================================
